---- MODULE Spec2Model ----
(***************************************************************************)
(* A model of the scheduled affiliate bot (src/scheduled_bot.py): the      *)
(* round-robin link cursor, its persisted progress record, the start-up    *)
(* progress load, the remote commit loop, the posting session, the feed    *)
(* update, the product lookup, the link conversion and the chat send; and  *)
(* of the scraper that writes the link store                               *)
(* (src/amazon_scraper_scheduled.py) and of the link detection of the      *)
(* interactive bot (src/bot.py).                                           *)
(*                                                                         *)
(* The specifications share the variables:                                 *)
(*   SpecTake     the EnhancedAffiliateBot object after construction, with *)
(*                get_next_links called by an arbitrary caller;            *)
(*   Spec         one run of main(): configuration check, construction     *)
(*                (link load, progress load), the session's two takes;     *)
(*   SpecCommit   one call of commit_to_github against a remote file;      *)
(*   SpecGateway  get_real_product_info_serpapi called by any caller;      *)
(*   SpecSession  one call of send_scheduled_links, step by step;          *)
(*   SpecFeed     update_website_products on feeds up to the retention     *)
(*                bound;                                                   *)
(*   SpecConvert  convert_amazon_link applied to a URL and to its result;  *)
(*   SpecSend     one call of send_to_telegram_with_retry;                 *)
(*   SpecScraper  one run of ScheduledAmazonScraper: load, scrape, save;   *)
(*   SpecIds      the product ids two sessions emit side by side;          *)
(*   SpecRace     update_website_products step by step while another       *)
(*                session commits to the same feed;                        *)
(*   SpecRuns     consecutive runs of main() over an unchanged store;      *)
(*   SpecDetect   one call of detect_and_convert_links.                    *)
(* Variables a specification does not use keep their initial value.        *)
(***************************************************************************)
EXTENDS Integers, Sequences, FiniteSets, TLC

VARIABLES
    \* ---- the EnhancedAffiliateBot object and the local progress file ----
    links,              \* self.links: the link store
    current_index,      \* self.current_index: the cursor
    stats_start_time,   \* self.session_stats['start_time']: "None" | "datetime"
    loop_running,       \* whether the caller runs inside an asyncio event loop
    progress_data,      \* the record save_progress built last
    local_file,         \* data/progress.json
    gh_task,            \* the update_progress_on_github task save_progress created
    save_outcome,       \* how the last save_progress ended: "none" | "ok" | "error"
    last_call,          \* arguments and result of the last get_next_links call
    returned,           \* history: concatenation of every selection returned
    counts,             \* history: the count of each get_next_links call, in order
    start_index,        \* history: the index load_progress returned
    calls,              \* history: number of get_next_links calls
    \* ---- one run of main() ----
    pc,                 \* position of main()
    missing_vars,       \* main: the required environment variables that are unset
    session_type,       \* SESSION_TYPE
    links_file,         \* data/amazon_links.json: the stored 'links' list
    remote_progress,    \* data/progress.json in the remote repository
    gh_attempt,         \* get_progress_from_github: the loop variable attempt
    gh_last,            \* history: the response of the last remote progress GET
    github_progress,    \* load_progress: github_progress (-1: None)
    telegram_links,     \* send_scheduled_links: telegram_links
    website_links,      \* send_scheduled_links: website_links
    exit_code,          \* process exit status ("running" until the process ends)
    \* ---- one call of commit_to_github ----
    c_pc,               \* position inside commit_to_github
    c_attempt,          \* the loop variable attempt
    c_sha,              \* the local sha of the current attempt (0: None)
    c_get,              \* status of the current attempt's GET ("none": none yet)
    c_ret,              \* return value: "none" | "True" | "False" | "raised"
    c_log,              \* history: every request, sleep and return, in order
    remote_sha,         \* revision token of the remote file (0: the file is absent)
    \* ---- one call of send_scheduled_links ----
    telegram_positions, \* history: the store positions of telegram_links
    website_positions,  \* history: the store positions of website_links
    serp_api_key,       \* whether SERP_API_KEY is set
    serp_request_count, \* self.serp_request_count
    serp_requests,      \* history: number of requests sent to serpapi.com
    last_lookup,        \* history: argument and result of the last product lookup
    last_responses,     \* history: what the requests of the last lookup of
                        \* SpecGateway led to, in their order
    web_i,              \* the loop variable i of the website loop (0 before it)
    send_log,           \* history: the result of each send_to_telegram_with_retry
    sent_count,         \* send_scheduled_links: sent_count
    telegram_sent,      \* self.session_stats['telegram_sent']
    post_delays,        \* history: the waits between two posts of the chat loop
    website_products,   \* send_scheduled_links: website_products
    remote_feed,        \* the 'products' list of the remote data/products.json
    feed_exists,        \* whether the remote data/products.json exists
    feed_reads,         \* history: number of get_website_products calls
    feed_commits,       \* history: for each commit_to_github call for the feed, the
                        \* list get_website_products returned and the list committed
    update_result,      \* history: what update_website_products returned ("none" before)
    session_ret,        \* what send_scheduled_links returned (-1: not yet)
    \* ---- convert_amazon_link applied to a URL, and again to its result ----
    cv_input,           \* the URL the first application is given
    cv_url,             \* url of the innermost call of convert_amazon_link
    cv_pc,              \* position of that call: "call" | "head" | "done" ("idle")
    cv_out,             \* what the outermost call returned
    cv_first,           \* history: what the first application returned
    cv_round,           \* 1: first application, 2: application to its result
    cv_depth,           \* number of calls of convert_amazon_link below the outermost
    cv_heads,           \* history: number of HEAD requests that got a response
    \* ---- one call of send_to_telegram_with_retry ----
    tg_pc,              \* "send" | "sleep" | "done" ("idle" when there is no call)
    tg_attempt,         \* attempt, the variable of the for loop
    tg_wait,            \* seconds of the asyncio.sleep about to be awaited
    tg_log,             \* history: the send attempts with their outcome, and the waits
    tg_ret,             \* what the call returned: "none" | "True" | "False"
    tg_errors,          \* self.session_stats['errors']
    \* ---- the scraper: ScheduledAmazonScraper ----
    sc_pc,              \* "load" | "scrape" | "save" | "done" ("idle")
    store_file,         \* the 'links' list of data/amazon_links.json
    stored_before,      \* history: that list when the scraper started
    existing_links,     \* self.existing_links, a set
    new_links,          \* self.new_links, a list
    new_links_added,    \* what save_links recorded and returned (-1: not yet)
    \* ---- the ids of the products two sessions emit ----
    clock,              \* the wall clock, in seconds
    emitted,            \* for each session, the ids of the products it has built
    id_pc,              \* for each session: "loop" | "update" | "done" ("idle")
    id_label,           \* for each session, its session_type
    id_feed,            \* the ids of the products of the remote feed, newest first
    \* ---- update_website_products step by step, beside another session ----
    feed_fetched,       \* website_products: what get_website_products returned
    feed_read_sha,      \* history: revision of the remote feed when it was read
    feed_between,       \* history: products other sessions committed since the read
    \* ---- consecutive runs of main() over one store ----
    run,                \* number of the current run (0 when runs are not followed)
    prev_end,           \* history: current_index when the previous run ended (-1: none)
    dispatched,         \* history: the store positions the earlier runs selected
    reached,            \* history: whether the repository answered the progress
                        \* request of every earlier run with 200 or 404
    \* ---- one call of detect_and_convert_links of the interactive bot ----
    dt_pc,              \* "find" | "amazon" | "flipkart" | "done" ("idle")
    dt_text,            \* text, the message
    dt_urls,            \* the list the loop under way iterates over
    dt_i,               \* number of iterations of that loop done
    dt_converted,       \* converted_text
    dt_conversions      \* conversions

objVars == <<links, current_index, stats_start_time, loop_running, progress_data,
             local_file, gh_task, save_outcome, last_call, returned, counts,
             start_index, calls>>
mainVars == <<pc, missing_vars, session_type, links_file, remote_progress, gh_attempt,
              gh_last, github_progress, telegram_links, website_links, exit_code>>
commitVars == <<c_pc, c_attempt, c_sha, c_get, c_ret, c_log, remote_sha>>
takeHist == <<telegram_positions, website_positions>>
sessVars == <<serp_api_key, serp_request_count, serp_requests, last_lookup, last_responses,
              web_i, send_log,
              sent_count, telegram_sent, post_delays, website_products, remote_feed, feed_exists,
              feed_reads, feed_commits, update_result, session_ret>>
convVars == <<cv_input, cv_url, cv_pc, cv_out, cv_first, cv_round, cv_depth, cv_heads>>
sendVars == <<tg_pc, tg_attempt, tg_wait, tg_log, tg_ret, tg_errors>>
scrapeVars == <<sc_pc, store_file, stored_before, existing_links, new_links,
               new_links_added>>
idVars == <<clock, emitted, id_pc, id_label, id_feed>>
raceVars == <<feed_fetched, feed_read_sha, feed_between>>
runVars == <<run, prev_end, dispatched, reached>>
detectVars == <<dt_pc, dt_text, dt_urls, dt_i, dt_converted, dt_conversions>>
otherVars == <<sendVars, scrapeVars, idVars, raceVars, runVars, detectVars>>
vars == <<objVars, mainVars, commitVars, takeHist, sessVars, convVars, otherVars>>

-----------------------------------------------------------------------------
(* Bounds of the model *)

\* largest number of valid links data/amazon_links.json holds
MaxLen == 4
\* largest index a progress document holds at start-up
MaxStart == 5
\* largest count an arbitrary caller passes to get_next_links
MaxCount == 3
\* number of get_next_links calls an arbitrary caller makes
MaxCalls == 2
\* largest revision of the remote file (other writers stop committing there)
MaxVersion == 3

-----------------------------------------------------------------------------
(* The link store *)

\* Python's None where the code holds an index, a count or None.
None == 0 - 1

\* A link is a number: i >= 1 stands for the i-th distinct URL that matches
\* one of the amazon_patterns, 0 for an entry that matches none of them.
InvalidLink == 0

\* lines 114-127
is_valid_amazon_link(link) == link >= 1

\* lines 87-112: load_amazon_links, the stored list filtered by
\* is_valid_amazon_link, order kept.
load_amazon_links(file) == SelectSeq(file, is_valid_amazon_link)

\* A store of n distinct valid links.
StoreOf(n) == [i \in 1..n |-> i]

\* s with x inserted so that it becomes the element at position p.
InsertAt(s, p, x) == SubSeq(s, 1, p - 1) \o <<x>> \o SubSeq(s, p, Len(s))

\* The lists data/amazon_links.json may hold: up to MaxLen distinct valid
\* links, with or without one invalid entry somewhere among them.
LinkFiles ==
    {StoreOf(n) : n \in 0..MaxLen}
    \cup UNION {{InsertAt(StoreOf(n), p, InvalidLink) : p \in 1..(n + 1)} : n \in 0..MaxLen}

-----------------------------------------------------------------------------
(* get_next_links *)

\* line 718: if not self.links
StoreEmptyNoGuard(lnks) == FALSE
StoreEmpty(lnks) == lnks = <<>>

\* line 728: max_attempts = len(self.links) * 2
MaxAttemptsUncapped(len) == len * 2 + MaxCount + 2
MaxAttempts(len) == len * 2

\* lines 731-732: if self.current_index >= len(self.links): self.current_index = 0
WrapIndexModulo(idx, len) == idx % len
WrapIndexBeforeEnd(idx, len) == IF idx + 1 >= len THEN 0 ELSE idx
WrapIndex(idx, len) == IF idx >= len THEN 0 ELSE idx

\* line 744: self.current_index += 1
AdvanceIndexByTwo(i) == i + 2
AdvanceIndex(i) == i + 1

\* lines 730-745: the while loop; pos holds the store positions of the links
\* appended to selected_links so far, attempts is the loop counter.
RECURSIVE TakeLoop(_, _, _, _, _)
TakeLoop(lnks, idx, pos, attempts, count) ==
    IF Len(pos) < count /\ attempts < MaxAttempts(Len(lnks))
    THEN LET i == WrapIndex(idx, Len(lnks))
             current_link == lnks[i + 1]
             pos2 == IF is_valid_amazon_link(current_link)
                     THEN Append(pos, i)
                     ELSE pos
         IN TakeLoop(lnks, AdvanceIndex(i), pos2, attempts + 1, count)
    ELSE [selected |-> [k \in 1..Len(pos) |-> lnks[pos[k] + 1]], positions |-> pos,
          index |-> idx, attempts |-> attempts]

\* line 748: if purpose == "website"
SavesProgress(purpose) == purpose = "website"

-----------------------------------------------------------------------------
(* save_progress *)

\* lines 195-207: cycle_number
CycleNumberPlain(idx, total) == (idx \div total) + 1
CycleNumber(idx, total) ==
    IF total = 0 THEN 1
    ELSE IF idx > 0 /\ idx % total = 0 THEN idx \div total
    ELSE (idx \div total) + 1

\* lines 195-207: position_in_cycle
PositionInCycle(idx, total) ==
    IF total = 0 THEN 1
    ELSE IF idx > 0 /\ idx % total = 0 THEN total
    ELSE (idx % total) + 1

\* A progress document: state is "absent" (no file), "complete" (a whole JSON
\* document) or "truncated" (the text json.dump wrote before it raised, which
\* does not parse).  has_index is whether the document holds a current_index
\* key.  The fields last_updated, completion_percentage, session_type,
\* next_reset_date and bot_version are not modelled.
NoDocument ==
    [state |-> "absent", has_index |-> FALSE, current_index |-> 0, cycle_number |-> 0,
     position_in_cycle |-> 0, total_links |-> 0]

\* lines 211-222: progress_data
BuildProgress(idx, lnks) ==
    [state |-> "complete", has_index |-> TRUE, current_index |-> idx,
     cycle_number |-> CycleNumber(idx, Len(lnks)),
     position_in_cycle |-> PositionInCycle(idx, Len(lnks)),
     total_links |-> Len(lnks)]

NoTask == [state |-> "none", data |-> NoDocument]

\* line 226: json.dump(progress_data, f) raises TypeError when session_stats
\* holds a datetime (json has no encoder for it), after it has written the
\* fields that precede session_stats.
JsonSerializable(start_time) == start_time = "None"

\* lines 190-234, for cursor idx: the new values of
\* progress_data, local_file, gh_task and save_outcome.
\*   - json.dump raises: the file is left truncated, line 229 is not reached;
\*   - asyncio.create_task raises RuntimeError when no event loop is running:
\*     the file is written, no task exists;
\*   - otherwise the file is written and the task is scheduled.
save_progress(idx) ==
    LET data == BuildProgress(idx, links)
    IN /\ progress_data' = data
       /\ IF ~JsonSerializable(stats_start_time)
          THEN /\ local_file' = [data EXCEPT !.state = "truncated"]
               /\ gh_task' = gh_task
               /\ save_outcome' = "error"
          ELSE /\ local_file' = data
               /\ IF loop_running
                  THEN /\ gh_task' = [state |-> "scheduled", data |-> data]
                       /\ save_outcome' = "ok"
                  ELSE /\ gh_task' = gh_task
                       /\ save_outcome' = "error"

NoCall ==
    [count |-> 0, purpose |-> "none", selected |-> <<>>, positions |-> <<>>,
     attempts |-> 0, index_before |-> 0, saved |-> FALSE]

\* lines 716-752: get_next_links(count, purpose); the selection is
\* last_call'.selected.
get_next_links(count, purpose) ==
    IF StoreEmpty(links)
    THEN /\ last_call' = [count |-> count, purpose |-> purpose, selected |-> <<>>,
                          positions |-> <<>>, attempts |-> 0,
                          index_before |-> current_index, saved |-> FALSE]
         /\ UNCHANGED <<current_index, progress_data, local_file, gh_task, save_outcome>>
         /\ returned' = returned
         /\ counts' = Append(counts, count)
         /\ calls' = calls + 1
    ELSE LET r == TakeLoop(links, current_index, <<>>, 0, count)
         IN /\ current_index' = r.index
            /\ last_call' = [count |-> count, purpose |-> purpose,
                             selected |-> r.selected, positions |-> r.positions,
                             attempts |-> r.attempts,
                             index_before |-> current_index,
                             saved |-> SavesProgress(purpose)]
            /\ returned' = returned \o r.selected
            /\ counts' = Append(counts, count)
            /\ calls' = calls + 1
            /\ IF SavesProgress(purpose)
               THEN save_progress(r.index)
               ELSE UNCHANGED <<progress_data, local_file, gh_task, save_outcome>>

-----------------------------------------------------------------------------
(* SpecTake: the constructed object, get_next_links called by any caller *)

MainIdle ==
    /\ pc = "idle" /\ missing_vars = {} /\ session_type = "morning"
    /\ links_file = <<>> /\ remote_progress = NoDocument /\ gh_attempt = 0
    /\ gh_last = "none" /\ github_progress = None
    /\ telegram_links = <<>> /\ website_links = <<>>
    /\ exit_code = "running"

CommitIdle ==
    /\ c_pc = "idle" /\ c_attempt = 0 /\ c_sha = 0 /\ c_get = "none" /\ c_ret = "none"
    /\ c_log = <<>> /\ remote_sha = 0

\* Python's None where the code holds a product identifier or None.
NoAsin == "None"

NoLookup == [asin |-> NoAsin, key |-> FALSE, count_before |-> 0, requests |-> 0,
             info |-> [asin |-> "none", title |-> <<>>, source |-> "none",
                       raised |-> FALSE]]

\* The session variables before send_scheduled_links runs: the counters of
\* __init__ (lines 71-79), no selection, no product, nothing sent or returned.
SessFresh ==
    /\ telegram_positions = <<>> /\ website_positions = <<>>
    /\ serp_request_count = 0 /\ serp_requests = 0 /\ last_lookup = NoLookup
    /\ last_responses = <<>>
    /\ send_log = <<>> /\ sent_count = 0 /\ telegram_sent = 0 /\ post_delays = <<>>
    /\ website_products = <<>> /\ web_i = 0
    /\ feed_reads = 0 /\ feed_commits = <<>> /\ update_result = "none"
    /\ session_ret = None

SessIdle ==
    /\ SessFresh
    /\ serp_api_key = FALSE /\ remote_feed = <<>> /\ feed_exists = FALSE

\* The two sessions whose product ids are followed.
Sessions == {1, 2}

SendIdle ==
    /\ tg_pc = "idle" /\ tg_attempt = 0 /\ tg_wait = 0 /\ tg_log = <<>>
    /\ tg_ret = "none" /\ tg_errors = 0

ScrapeIdle ==
    /\ sc_pc = "idle" /\ store_file = <<>> /\ stored_before = <<>>
    /\ existing_links = {} /\ new_links = <<>> /\ new_links_added = None

IdIdle ==
    /\ clock = 0 /\ emitted = [s \in Sessions |-> <<>>]
    /\ id_pc = [s \in Sessions |-> "idle"] /\ id_feed = <<>>
    /\ id_label = [s \in Sessions |-> "morning"]

RaceIdle == feed_fetched = <<>> /\ feed_read_sha = 0 /\ feed_between = <<>>

RunIdle == run = 0 /\ prev_end = None /\ dispatched = <<>> /\ reached = TRUE

DetectIdle ==
    /\ dt_pc = "idle" /\ dt_text = <<>> /\ dt_urls = <<>> /\ dt_i = 0
    /\ dt_converted = <<>> /\ dt_conversions = <<>>

OtherIdle == SendIdle /\ ScrapeIdle /\ IdIdle /\ RaceIdle /\ RunIdle /\ DetectIdle

ConvIdle ==
    /\ cv_input = <<>> /\ cv_url = <<>> /\ cv_pc = "idle" /\ cv_out = <<>>
    /\ cv_first = <<>> /\ cv_round = 0 /\ cv_depth = 0 /\ cv_heads = 0

ObjFresh ==
    /\ progress_data = NoDocument /\ gh_task = NoTask /\ save_outcome = "none"
    /\ last_call = NoCall /\ returned = <<>> /\ counts = <<>> /\ calls = 0

InitTake ==
    /\ \E n \in 0..MaxLen : links = StoreOf(n)
    /\ current_index \in 0..MaxStart
    /\ start_index = current_index
    /\ stats_start_time \in {"None", "datetime"}
    /\ loop_running \in BOOLEAN
    /\ local_file = NoDocument
    /\ ObjFresh
    /\ MainIdle
    /\ CommitIdle
    /\ ConvIdle
    /\ OtherIdle
    /\ SessIdle

Take ==
    /\ calls < MaxCalls
    /\ \E count \in 0..MaxCount, purpose \in {"general", "telegram", "website"} :
          get_next_links(count, purpose)
    /\ UNCHANGED <<links, stats_start_time, loop_running, start_index>>
    /\ UNCHANGED <<convVars, otherVars, mainVars, commitVars, takeHist, sessVars>>

NextTake == Take

SpecTake == InitTake /\ [][NextTake]_vars

-----------------------------------------------------------------------------
(* Spec: one run of main() *)

\* lines 963-968: required_vars
RequiredVars == {"BOT_TOKEN", "CHANNEL_ID", "AMAZON_TAG", "GITHUB_TOKEN"}

\* lines 35-64: SESSION_CONFIG (telegram_links, website_links,
\* delay_between_posts)
SESSION_CONFIG ==
    [morning   |-> [telegram_links |-> 3, website_links |-> 2, delay_between_posts |-> 60],
     afternoon |-> [telegram_links |-> 3, website_links |-> 2, delay_between_posts |-> 60],
     evening   |-> [telegram_links |-> 2, website_links |-> 1, delay_between_posts |-> 90],
     night     |-> [telegram_links |-> 2, website_links |-> 1, delay_between_posts |-> 120]]

\* The values SESSION_TYPE takes: the four configured labels and one that is
\* not configured.
SessionLabels == {"morning", "afternoon", "evening", "night", "weekend"}

\* line 794: SESSION_CONFIG.get(session_type, SESSION_CONFIG['morning'])
SessionConfigOfNightDefault(label) ==
    IF label \in DOMAIN SESSION_CONFIG THEN SESSION_CONFIG[label]
    ELSE SESSION_CONFIG["night"]
SessionConfigOf(label) ==
    IF label \in DOMAIN SESSION_CONFIG THEN SESSION_CONFIG[label]
    ELSE SESSION_CONFIG["morning"]

\* lines 154, 665: max_retries = 3
max_retries == 3

\* lines 142, 175: data.get('current_index', 0)
ProgressOf(doc) == IF doc.has_index THEN doc.current_index ELSE 0

\* The progress documents a repository or the local disk may hold at start-up.
StoredDocuments ==
    {NoDocument, [NoDocument EXCEPT !.state = "truncated"],
     [NoDocument EXCEPT !.state = "complete"]}
    \cup {[NoDocument EXCEPT !.state = "complete", !.has_index = TRUE,
                             !.current_index = i] : i \in 0..MaxStart}

\* lines 131-150: what load_progress returns, given github_progress and the
\* local file: the remote index if there is one, else the local file's index
\* if the file exists and parses, else 0 (the handler at 146-150).
LoadProgressLocalFirst(gh, file) ==
    IF file.state = "complete" THEN ProgressOf(file)
    ELSE IF gh # None THEN gh
    ELSE 0
LoadProgressResult(gh, file) ==
    IF gh # None THEN gh
    ELSE IF file.state = "complete" THEN ProgressOf(file)
    ELSE 0

\* A run that finds a required variable unset reads neither file, so their
\* contents are left out of its initial state.
Init ==
    /\ pc = "main"
    /\ missing_vars \in SUBSET RequiredVars
    /\ session_type \in SessionLabels
    /\ IF missing_vars = {}
       THEN /\ links_file \in LinkFiles
            /\ remote_progress \in StoredDocuments
            /\ local_file \in StoredDocuments
       ELSE /\ links_file = <<>>
            /\ remote_progress = NoDocument
            /\ local_file = NoDocument
    /\ links = <<>> /\ current_index = 0 /\ start_index = 0
    /\ stats_start_time = "None"
    /\ loop_running = TRUE
    /\ gh_attempt = 0 /\ gh_last = "none" /\ github_progress = None
    /\ telegram_links = <<>> /\ website_links = <<>>
    /\ exit_code = "running"
    /\ ObjFresh
    /\ CommitIdle
    /\ ConvIdle
    /\ OtherIdle
    /\ SessIdle

objUnchanged ==
    UNCHANGED <<links, current_index, stats_start_time, loop_running, progress_data,
                local_file, gh_task, save_outcome, last_call, returned, counts,
                start_index, calls>>

\* lines 970-972: missing_vars lists the required variables without a value;
\* if missing_vars
ConfigMissingIfToken(missing) == "BOT_TOKEN" \in missing
ConfigMissing(missing) == missing # {}

\* lines 962-976: the environment validation of main.
MainCheckEnv ==
    /\ pc = "main"
    /\ IF ConfigMissing(missing_vars)
       THEN pc' = "exited" /\ exit_code' = "1"
       ELSE pc' = "load_links" /\ exit_code' = exit_code
    /\ objUnchanged
    /\ UNCHANGED <<missing_vars, session_type, links_file, remote_progress, gh_attempt,
                   gh_last, github_progress, telegram_links, website_links>>
    /\ UNCHANGED <<convVars, otherVars, commitVars, takeHist, sessVars>>

\* lines 67-69, 87-112: __init__ loads the link store.
LoadAmazonLinks ==
    /\ pc = "load_links"
    /\ links' = load_amazon_links(links_file)
    /\ gh_attempt' = 0
    /\ pc' = "get_progress"
    /\ UNCHANGED <<current_index, stats_start_time, loop_running, progress_data,
                   local_file, gh_task, save_outcome, last_call, returned, counts,
                   start_index, calls>>
    /\ UNCHANGED <<missing_vars, session_type, links_file, remote_progress, gh_last,
                   github_progress, telegram_links, website_links, exit_code>>
    /\ UNCHANGED <<convVars, otherVars, commitVars, takeHist, sessVars>>

\* The responses one GET of the remote progress document can get: 200 with
\* the stored document, 404 when there is none, another status, or an
\* exception (a network error, or a 200 whose content does not parse).
ProgressResponses ==
    {"status", "exception"}
    \cup (IF remote_progress.state = "complete" THEN {"200"} ELSE {})
    \cup (IF remote_progress.state = "absent" THEN {"404"} ELSE {})

\* lines 152-188: one iteration of the loop of get_progress_from_github.
\* (GITHUB_TOKEN is set here: main has checked it.  The wait of line 186
\* changes nothing that is modelled.)
GetProgressAttempt ==
    /\ pc = "get_progress"
    /\ gh_attempt < max_retries
    /\ \E r \in ProgressResponses :
          /\ gh_last' = r
          /\ CASE r = "200" ->
                    /\ github_progress' = ProgressOf(remote_progress)
                    /\ gh_attempt' = gh_attempt
                    /\ pc' = "load_progress"
               [] r = "404" ->
                    /\ github_progress' = None
                    /\ gh_attempt' = gh_attempt
                    /\ pc' = "load_progress"
               [] OTHER ->
                    /\ github_progress' = None
                    /\ gh_attempt' = gh_attempt + 1
                    /\ pc' = IF gh_attempt + 1 < max_retries
                             THEN "get_progress" ELSE "load_progress"
    /\ objUnchanged
    /\ UNCHANGED <<missing_vars, session_type, links_file, remote_progress,
                   telegram_links, website_links, exit_code>>
    /\ UNCHANGED <<convVars, otherVars, commitVars, takeHist, sessVars>>

\* lines 129-150, 70: load_progress after get_progress_from_github returned;
\* __init__ stores the result in current_index.
LoadProgress ==
    /\ pc = "load_progress"
    /\ current_index' = LoadProgressResult(github_progress, local_file)
    /\ start_index' = current_index'
    /\ pc' = "check_links"
    /\ UNCHANGED <<links, stats_start_time, loop_running, progress_data, local_file,
                   gh_task, save_outcome, last_call, returned, counts, calls>>
    /\ UNCHANGED <<missing_vars, session_type, links_file, remote_progress, gh_attempt,
                   gh_last, github_progress, telegram_links, website_links, exit_code>>
    /\ UNCHANGED <<convVars, otherVars, commitVars, takeHist, sessVars>>

\* lines 999-1001: main exits with 1 when no link was loaded.
MainCheckLinks ==
    /\ pc = "check_links"
    /\ IF Len(links) = 0
       THEN pc' = "exited" /\ exit_code' = "1"
       ELSE pc' = "session_start" /\ exit_code' = exit_code
    /\ objUnchanged
    /\ UNCHANGED <<missing_vars, session_type, links_file, remote_progress, gh_attempt,
                   gh_last, github_progress, telegram_links, website_links>>
    /\ UNCHANGED <<convVars, otherVars, commitVars, takeHist, sessVars>>

\* lines 790-810: send_scheduled_links records the start time, resolves the
\* session configuration and returns 0 when the store is empty.
SessionStart ==
    /\ pc = "session_start"
    /\ stats_start_time' = "datetime"
    /\ IF links = <<>>
       THEN pc' = "returned" /\ session_ret' = 0
       ELSE pc' = "take_telegram" /\ session_ret' = session_ret
    /\ UNCHANGED <<links, current_index, loop_running, progress_data, local_file,
                   gh_task, save_outcome, last_call, returned, counts, start_index,
                   calls>>
    /\ UNCHANGED <<missing_vars, session_type, links_file, remote_progress, gh_attempt,
                   gh_last, github_progress, telegram_links, website_links, exit_code>>
    /\ UNCHANGED <<serp_api_key, serp_request_count, serp_requests, last_lookup,
                   last_responses, web_i,
                   send_log, sent_count, telegram_sent, post_delays, website_products, remote_feed,
                   feed_exists, feed_reads, feed_commits, update_result>>
    /\ UNCHANGED <<convVars, otherVars, commitVars, takeHist>>

\* line 813: telegram_links = self.get_next_links(telegram_count, "telegram")
TakeTelegram ==
    /\ pc = "take_telegram"
    /\ get_next_links(SessionConfigOf(session_type).telegram_links, "telegram")
    /\ telegram_links' = last_call'.selected
    /\ telegram_positions' = last_call'.positions
    /\ pc' = "take_website"
    /\ UNCHANGED <<links, stats_start_time, loop_running, start_index>>
    /\ UNCHANGED <<missing_vars, session_type, links_file, remote_progress, gh_attempt,
                   gh_last, github_progress, website_links, exit_code>>
    /\ UNCHANGED <<convVars, otherVars, commitVars, website_positions, sessVars>>

\* line 814: website_links = self.get_next_links(website_count, "website")
TakeWebsite ==
    /\ pc = "take_website"
    /\ get_next_links(SessionConfigOf(session_type).website_links, "website")
    /\ website_links' = last_call'.selected
    /\ website_positions' = last_call'.positions
    /\ pc' = "posting"
    /\ UNCHANGED <<links, stats_start_time, loop_running, start_index>>
    /\ UNCHANGED <<missing_vars, session_type, links_file, remote_progress, gh_attempt,
                   gh_last, github_progress, telegram_links, exit_code>>
    /\ UNCHANGED <<convVars, otherVars, commitVars, telegram_positions, sessVars>>

\* lines 816-952: the posting phases and the session summary; they read the
\* two selections and do not write the cursor or the progress documents.
\* SpecSession below takes them step by step; here they are one step whose
\* outcome is the number of messages sent, any number up to the size of the
\* chat selection, and the result of the website update, done when there is
\* a website selection.
PostingPhases ==
    /\ pc = "posting"
    /\ pc' = "returned"
    /\ session_ret' \in 0..Len(telegram_links)
    /\ update_result' \in (IF website_links = <<>> THEN {"none"} ELSE {"True", "False"})
    /\ objUnchanged
    /\ UNCHANGED <<missing_vars, session_type, links_file, remote_progress, gh_attempt,
                   gh_last, github_progress, telegram_links, website_links, exit_code>>
    /\ UNCHANGED <<serp_api_key, serp_request_count, serp_requests, last_lookup,
                   last_responses, web_i,
                   send_log, sent_count, telegram_sent, post_delays, website_products, remote_feed,
                   feed_exists, feed_reads, feed_commits>>
    /\ UNCHANGED <<convVars, otherVars, commitVars, takeHist>>

\* lines 1004-1008: main logs sent_count and falls off its end, whatever the
\* count: the process ends with status 0.
ExitStatusBySent(sent) == IF sent = 0 THEN "1" ELSE "0"
ExitStatus(sent) == "0"

\* lines 1005-1018: send_scheduled_links returned, main returns and
\* asyncio.run closes the loop, cancelling every task that has not finished.
MainReturn ==
    /\ pc = "returned"
    /\ pc' = "exited"
    /\ exit_code' = ExitStatus(session_ret)
    /\ gh_task' = IF gh_task.state = "scheduled"
                  THEN [gh_task EXCEPT !.state = "cancelled"] ELSE gh_task
    /\ UNCHANGED <<links, current_index, stats_start_time, loop_running, progress_data,
                   local_file, save_outcome, last_call, returned, counts, start_index,
                   calls>>
    /\ UNCHANGED <<missing_vars, session_type, links_file, remote_progress, gh_attempt,
                   gh_last, github_progress, telegram_links, website_links>>
    /\ UNCHANGED <<convVars, otherVars, commitVars, takeHist, sessVars>>

Next ==
    \/ MainCheckEnv
    \/ LoadAmazonLinks
    \/ GetProgressAttempt
    \/ LoadProgress
    \/ MainCheckLinks
    \/ SessionStart
    \/ TakeTelegram
    \/ TakeWebsite
    \/ PostingPhases
    \/ MainReturn

Spec == Init /\ [][Next]_vars

-----------------------------------------------------------------------------
(* SpecCommit: one call of commit_to_github *)

\* An entry of c_log: a request with the attempt it belongs to, the status it
\* got ("exception" when the request raised) and the revision token it
\* carried (PUT) or returned (GET), 0 standing for none; or a wait, arg being
\* its length in seconds; or the return.
LogEntry(op, attempt, status, arg) ==
    [op |-> op, attempt |-> attempt, status |-> status, arg |-> arg]

\* line 701: if response.status_code in [200, 201]
IsCommittedOnly200(status) == status = "200"
IsCommitted(status) == status \in {"200", "201"}

\* lines 678-680: the sha the attempt keeps from its GET.
ShaOfGetKept(status, token, previous) == IF status = "200" THEN token ELSE previous
ShaOfGet(status, token, previous) == IF status = "200" THEN token ELSE 0

\* line 710: if attempt < max_retries - 1 (the wait of the except handler)
WaitsAfterException(attempt) == attempt < max_retries - 1

\* line 711: 2 ** attempt
RECURSIVE Pow2(_)
Pow2(n) == IF n = 0 THEN 1 ELSE 2 * Pow2(n - 1)

\* The statuses the GET of line 677 can get from the repository: 200 with the
\* file's revision token, 404 when the file is absent, another status
\* (401, 403, 5xx; "500" stands for them), or an exception (no response, or a
\* 200 whose body holds no 'sha').
GetResponses ==
    {"500", "exception"}
    \cup (IF remote_sha = 0 THEN {"404"} ELSE {"200"})

\* The statuses the PUT of line 699 can get when it carries token sha:
\* 201 for a file created (no file, no token), 200 for a file replaced (the
\* token is the file's), 409 or 422 when the token does not fit the file,
\* 5xx, or no response at all.
PutResponses(sha) ==
    {"500", "exception"}
    \cup (IF remote_sha = 0 /\ sha = 0 THEN {"201"} ELSE {})
    \cup (IF remote_sha # 0 /\ sha = remote_sha THEN {"200"} ELSE {})
    \cup (IF remote_sha # 0 /\ sha = 0 THEN {"422"} ELSE {})
    \cup (IF sha # 0 /\ sha # remote_sha THEN {"409"} ELSE {})

InitCommit ==
    /\ c_pc = "get" /\ c_attempt = 0 /\ c_sha = 0 /\ c_get = "none" /\ c_ret = "none"
    /\ c_log = <<>>
    /\ remote_sha \in 0..1
    /\ links = <<>> /\ current_index = 0 /\ start_index = 0
    /\ stats_start_time = "datetime" /\ loop_running = TRUE
    /\ local_file = NoDocument
    /\ ObjFresh
    /\ MainIdle
    /\ SessIdle
    /\ ConvIdle
    /\ OtherIdle

\* The end of one iteration of the for loop of line 667 that did not return:
\* the next attempt, or line 713-714 after the last one.
NextAttempt(log) ==
    IF c_attempt + 1 < max_retries
    THEN /\ c_attempt' = c_attempt + 1
         /\ c_pc' = "get"
         /\ c_ret' = c_ret
         /\ c_log' = log
    ELSE /\ c_attempt' = c_attempt
         /\ c_pc' = "done"
         /\ c_ret' = "False"
         /\ c_log' = Append(log, LogEntry("RETURN", c_attempt, "False", 0))

\* lines 707-711: the except handler, entered from a request that raised.
AfterException(log) ==
    IF WaitsAfterException(c_attempt)
    THEN /\ c_pc' = "sleep"
         /\ c_log' = log
         /\ UNCHANGED <<c_attempt, c_ret>>
    ELSE NextAttempt(log)

\* lines 669-680: the GET of an attempt and the sha taken from it.
CommitGet ==
    /\ c_pc = "get"
    /\ \E status \in GetResponses :
          LET log == Append(c_log, LogEntry("GET", c_attempt, status,
                                            IF status = "200" THEN remote_sha ELSE 0))
          IN IF status = "exception"
             THEN /\ AfterException(log)
                  /\ UNCHANGED <<c_sha, c_get>>
             ELSE /\ c_sha' = ShaOfGet(status, remote_sha, c_sha)
                  /\ c_get' = status
                  /\ c_pc' = "put"
                  /\ c_log' = log
                  /\ UNCHANGED <<c_attempt, c_ret>>
    /\ UNCHANGED remote_sha
    /\ UNCHANGED <<convVars, otherVars, objVars, mainVars, takeHist, sessVars>>

\* lines 682-705: the PUT of an attempt, carrying sha when it is set, and the
\* test of its status.  A PUT that gets no response may or may not have been
\* applied by the repository.
CommitPutStep ==
    /\ c_pc = "put"
    /\ \E status \in PutResponses(c_sha), applied \in BOOLEAN :
          LET log == Append(c_log, LogEntry("PUT", c_attempt, status, c_sha))
              fits == (remote_sha = 0 /\ c_sha = 0) \/ (remote_sha # 0 /\ c_sha = remote_sha)
          IN /\ status \in {"200", "201"} => applied
             /\ applied => \/ status \in {"200", "201"}
                           \/ status = "exception" /\ fits /\ remote_sha < MaxVersion
             /\ remote_sha' = IF applied THEN remote_sha + 1 ELSE remote_sha
             /\ IF IsCommitted(status)
                THEN /\ c_pc' = "done"
                     /\ c_ret' = "True"
                     /\ c_log' = Append(log, LogEntry("RETURN", c_attempt, "True", 0))
                     /\ UNCHANGED c_attempt
                ELSE IF status = "exception"
                THEN AfterException(log)
                ELSE NextAttempt(log)
    /\ UNCHANGED <<c_sha, c_get>>

\* The PUT of a call whose file is not one the model holds the content of.
CommitPut ==
    /\ CommitPutStep
    /\ UNCHANGED <<convVars, otherVars, objVars, mainVars, takeHist, sessVars>>

\* line 711: await asyncio.sleep(2 ** attempt), then the next attempt.
CommitSleep ==
    /\ c_pc = "sleep"
    /\ NextAttempt(Append(c_log, LogEntry("SLEEP", c_attempt, "", Pow2(c_attempt))))
    /\ UNCHANGED <<c_sha, c_get, remote_sha>>
    /\ UNCHANGED <<convVars, otherVars, objVars, mainVars, takeHist, sessVars>>

\* Another writer (another session, the scraper's workflow, a person) commits
\* to the same remote file or creates it.
OtherWriter ==
    /\ c_pc # "done"
    /\ remote_sha < MaxVersion
    /\ remote_sha' = remote_sha + 1
    /\ UNCHANGED <<c_pc, c_attempt, c_sha, c_get, c_ret, c_log>>
    /\ UNCHANGED <<convVars, otherVars, objVars, mainVars, takeHist, sessVars>>

NextCommit ==
    \/ CommitGet
    \/ CommitPut
    \/ CommitSleep
    \/ OtherWriter

SpecCommit == InitCommit /\ [][NextCommit]_vars

-----------------------------------------------------------------------------
(* The product lookup: get_real_product_info_serpapi *)

\* A product identifier is a string of ten characters of [A-Z0-9].
AsinTable ==
    <<"B08N5WRWNW", "B000000002", "B000000003", "B000000004", "B000000005",
      "B000000006", "B000000007", "B000000008">>

\* line 869 on a link of the store: every third link of the store is a valid
\* link that holds no identifier (a short link or a page of the marketplace).
AsinOf(link) == IF link % 3 = 0 THEN NoAsin ELSE AsinTable[link]

\* line 327: daily_limit = 5
daily_limit == 5

\* line 347: max_retries = 2
serp_max_retries == 2

\* lines 528-534: fallback_titles
fallback_titles ==
    <<"Premium Amazon Product", "Top Rated Item", "Customer Favorite",
      "Best Seller Product", "Amazon Choice Item">>

\* line 537: title_index, 0-based.  The position of the identifier in AsinTable
\* stands for the md5 digest of str(asin).
TitleIndex(asin) ==
    IF asin \in {AsinTable[k] : k \in DOMAIN AsinTable}
    THEN (CHOOSE k \in DOMAIN AsinTable : AsinTable[k] = asin) % Len(fallback_titles)
    ELSE 0

\* lines 526-549: get_fallback_product_info.  A title is the sequence of the
\* parts the f-string joins with a space.  image, price, rating, category,
\* in_stock and fetched_at are not modelled.
get_fallback_product_info(asin) ==
    [asin |-> IF asin # NoAsin THEN asin ELSE "UNKNOWN",
     title |-> IF asin # NoAsin
               THEN <<fallback_titles[TitleIndex(asin) + 1], asin>>
               ELSE <<fallback_titles[TitleIndex(asin) + 1]>>,
     source |-> "fallback", raised |-> FALSE]

\* lines 386-407: product_info built from a product_result; the title the
\* API returned is one word here.
SerpProductInfo(asin) ==
    [asin |-> asin, title |-> <<"product_result.title">>, source |-> "serpapi",
     raised |-> FALSE]

\* A lookup that ends with an exception instead of a ProductInfo.
LookupRaised == [asin |-> "none", title |-> <<>>, source |-> "none", raised |-> TRUE]

\* lines 427-428: after the last attempt failed.
AfterAllAttemptsRaises(asin) == LookupRaised
AfterAllAttempts(asin) == get_fallback_product_info(asin)

\* What one request of line 361 can lead to:
\*   "exception"  no response, or an error status (raise_for_status, line 368);
\*   "malformed"  a success status whose body does not parse or whose fields
\*                make the extraction raise, or a success status other than 200;
\*   "error"      a document holding 'error' (line 375);
\*   "empty"      a document without product_result (line 381);
\*   "product"    a document holding a product_result.
SerpResponses == {"exception", "malformed", "error", "empty", "product"}

\* lines 381-383: a document without product_result gives the fallback.
OnEmptyResultUnpopulated(asin) ==
    [asin |-> asin, title |-> <<>>, source |-> "serpapi", raised |-> FALSE]
OnEmptyResult(asin) == get_fallback_product_info(asin)

\* lines 349-428: the attempts from attempt on, count being serp_request_count,
\* requests the number of requests sent so far and responses what they led
\* to: the set of possible results [info, count, requests, responses].  The
\* counter is incremented (line 369) after raise_for_status, so not for a
\* request that raised.
RECURSIVE SerpAttempts(_, _, _, _, _)
SerpAttempts(asin, attempt, count, requests, responses) ==
    IF attempt >= serp_max_retries
    THEN {[info |-> AfterAllAttempts(asin), count |-> count, requests |-> requests,
           responses |-> responses]}
    ELSE UNION {
        CASE r = "exception" ->
                SerpAttempts(asin, attempt + 1, count, requests + 1,
                             Append(responses, r))
          [] r = "malformed" ->
                SerpAttempts(asin, attempt + 1, count + 1, requests + 1,
                             Append(responses, r))
          [] r = "product" ->
                {[info |-> SerpProductInfo(asin), count |-> count + 1,
                  requests |-> requests + 1, responses |-> Append(responses, r)]}
          [] r = "empty" ->
                {[info |-> OnEmptyResult(asin), count |-> count + 1,
                  requests |-> requests + 1, responses |-> Append(responses, r)]}
          [] OTHER ->
                {[info |-> get_fallback_product_info(asin), count |-> count + 1,
                  requests |-> requests + 1, responses |-> Append(responses, r)]}
        : r \in SerpResponses}

\* line 338: if not SERP_API_KEY
NoCredentialIgnored(key) == FALSE
NoCredential(key) == ~key

\* lines 316-334: check_serp_api_limits.  (The monthly reset of line 321 needs
\* a process that has run for 30 days; a run lasts one session.)
check_serp_api_limits(count) == count < daily_limit

\* lines 336-428: get_real_product_info_serpapi(asin), the set of its possible
\* results given the credential and the request counter.
get_real_product_info_serpapi(asin, key, count) ==
    IF NoCredential(key)
    THEN {[info |-> get_fallback_product_info(asin), count |-> count, requests |-> 0,
           responses |-> <<>>]}
    ELSE IF ~check_serp_api_limits(count)
    THEN {[info |-> get_fallback_product_info(asin), count |-> count, requests |-> 0,
           responses |-> <<>>]}
    ELSE SerpAttempts(asin, 0, count, 0, <<>>)

-----------------------------------------------------------------------------
(* SpecGateway: the product lookup called by any caller *)

\* largest value of serp_request_count a lookup starts from
MaxSerpCount == 6
\* largest number of requests the lookups of one behaviour send
MaxSerpRequests == 4

InitGateway ==
    /\ serp_api_key \in BOOLEAN
    /\ serp_request_count \in 0..MaxSerpCount
    /\ telegram_positions = <<>> /\ website_positions = <<>>
    /\ serp_requests = 0 /\ last_lookup = NoLookup /\ last_responses = <<>>
    /\ send_log = <<>> /\ sent_count = 0 /\ telegram_sent = 0 /\ post_delays = <<>>
    /\ website_products = <<>> /\ web_i = 0
    /\ remote_feed = <<>> /\ feed_exists = FALSE
    /\ feed_reads = 0 /\ feed_commits = <<>> /\ update_result = "none"
    /\ session_ret = None
    /\ links = <<>> /\ current_index = 0 /\ start_index = 0
    /\ stats_start_time = "None" /\ loop_running = TRUE
    /\ local_file = NoDocument
    /\ ObjFresh
    /\ MainIdle
    /\ CommitIdle
    /\ ConvIdle
    /\ OtherIdle

\* The identifiers a caller passes: two identifiers, or None.
LookupArguments == {AsinTable[1], AsinTable[2], NoAsin}

\* One call of get_real_product_info_serpapi.
Lookup ==
    /\ serp_requests < MaxSerpRequests
    /\ \E asin \in LookupArguments :
          \E r \in get_real_product_info_serpapi(asin, serp_api_key, serp_request_count) :
              /\ serp_request_count' = r.count
              /\ serp_requests' = serp_requests + r.requests
              /\ last_lookup' = [asin |-> asin, key |-> serp_api_key,
                                 count_before |-> serp_request_count,
                                 requests |-> r.requests, info |-> r.info]
              /\ last_responses' = r.responses
    /\ UNCHANGED <<serp_api_key, web_i, send_log, sent_count, telegram_sent, post_delays,
                   website_products, remote_feed, feed_exists, feed_reads, feed_commits,
                   update_result, session_ret>>
    /\ UNCHANGED <<convVars, otherVars, objVars, mainVars, commitVars, takeHist>>

NextGateway == Lookup

SpecGateway == InitGateway /\ [][NextGateway]_vars

-----------------------------------------------------------------------------
(* SpecSession: one call of send_scheduled_links on a constructed object *)

\* largest number of products the remote feed holds when a session starts
MaxOld == 1

\* line 594: website_products[:100]
RetentionBound == 100

\* A WebsiteProduct (lines 879-895): the fields original_link, asin, title,
\* data_source, session_type and link_index, and i, the part of the id that
\* is the loop index.  The time of the id and of posted_date, affiliate_link
\* and the fields copied from the product info that the lookup does not
\* model are left out.
WebsiteProduct(i, original_link, product_info, label, link_index) ==
    [i |-> i, original_link |-> original_link, asin |-> product_info.asin,
     title |-> product_info.title, data_source |-> product_info.source,
     session_type |-> label, link_index |-> link_index]

\* The j-th product an earlier session left in the feed.
OldProduct(j) ==
    [i |-> 1, original_link |-> 0 - j, asin |-> "UNKNOWN", title |-> <<"earlier">>,
     data_source |-> "fallback", session_type |-> "morning", link_index |-> j]

\* A feed of m products of earlier sessions, the newest first.
OldFeed(m) == [j \in 1..m |-> OldProduct(m + 1 - j)]

\* lines 589-594: the new products put in front of the feed read, in their
\* order, and the result cut to the retention bound.
MergeFeedAppended(new_products, feed) ==
    SubSeq(feed \o new_products, 1,
           IF Len(feed) + Len(new_products) < RetentionBound
           THEN Len(feed) + Len(new_products) ELSE RetentionBound)
MergeFeed(new_products, feed) ==
    SubSeq(new_products \o feed, 1,
           IF Len(new_products) + Len(feed) < RetentionBound
           THEN Len(new_products) + Len(feed) ELSE RetentionBound)

\* The object main() has constructed and checked, or one with an empty store
\* (send_scheduled_links returns at once on it), and the remote feed of the
\* website repository.
InitSession ==
    /\ \E n \in 0..MaxLen : links = StoreOf(n)
    /\ current_index \in 0..MaxStart
    /\ start_index = current_index
    /\ stats_start_time = "None" /\ loop_running = TRUE
    /\ local_file = NoDocument
    /\ ObjFresh
    /\ pc = "session_start" /\ missing_vars = {}
    /\ session_type \in SessionLabels
    /\ links_file = <<>> /\ remote_progress = NoDocument /\ gh_attempt = 0
    /\ gh_last = "none" /\ github_progress = None
    /\ telegram_links = <<>> /\ website_links = <<>>
    /\ exit_code = "running"
    /\ CommitIdle
    /\ ConvIdle
    /\ OtherIdle
    /\ SessFresh
    /\ serp_api_key \in BOOLEAN
    /\ feed_exists \in BOOLEAN
    /\ IF feed_exists
       THEN \E m \in 0..MaxOld : remote_feed = OldFeed(m)
       ELSE remote_feed = <<>>

sessionFrame ==
    /\ objUnchanged
    /\ UNCHANGED <<missing_vars, session_type, links_file, remote_progress, gh_attempt,
                   gh_last, github_progress, telegram_links, website_links, exit_code>>
    /\ UNCHANGED <<convVars, otherVars, commitVars, takeHist>>

\* lines 816-821: return 0 when both selections are empty, else start the
\* chat loop.
CheckSelections ==
    /\ pc = "posting"
    /\ IF telegram_links = <<>> /\ website_links = <<>>
       THEN pc' = "returned" /\ session_ret' = 0
       ELSE pc' = "telegram_phase" /\ session_ret' = session_ret
    /\ UNCHANGED <<serp_api_key, serp_request_count, serp_requests, last_lookup,
                   last_responses, web_i,
                   send_log, sent_count, telegram_sent, post_delays, website_products, remote_feed,
                   feed_exists, feed_reads, feed_commits, update_result>>
    /\ sessionFrame

\* line 845: if success
CountsAttempt(success) == TRUE
CountsSuccess(success) == success

\* lines 845-850: neither branch of `if success` writes self.current_index.
CursorAfterSendRequeued(idx, success) == IF success THEN idx ELSE idx - 1
CursorAfterSend(idx, success) == idx

\* lines 852-855: if i < len(telegram_links), after both branches of
\* `if success`
DelayFollowsSuccessOnly(i, n, success) == success /\ i < n
DelayFollows(i, n, success) == i < n

\* lines 827-860: one iteration of the chat loop.  convert_amazon_link does
\* not raise and send_to_telegram_with_retry returns True or False (it
\* catches every Exception), so the handler of line 858 is not entered.
TelegramPost ==
    /\ pc = "telegram_phase"
    /\ Len(send_log) < Len(telegram_links)
    /\ \E success \in BOOLEAN :
          /\ send_log' = Append(send_log, success)
          /\ sent_count' = IF CountsSuccess(success) THEN sent_count + 1 ELSE sent_count
          /\ telegram_sent' = IF CountsSuccess(success)
                              THEN telegram_sent + 1 ELSE telegram_sent
          /\ current_index' = CursorAfterSend(current_index, success)
          /\ post_delays' =
                IF DelayFollows(Len(send_log) + 1, Len(telegram_links), success)
                THEN Append(post_delays,
                            SessionConfigOf(session_type).delay_between_posts)
                ELSE post_delays
    /\ UNCHANGED pc
    /\ UNCHANGED <<serp_api_key, serp_request_count, serp_requests, last_lookup,
                   last_responses, web_i,
                   website_products, remote_feed, feed_exists, feed_reads, feed_commits,
                   update_result, session_ret>>
    /\ UNCHANGED <<links, stats_start_time, loop_running, progress_data,
                   local_file, gh_task, save_outcome, last_call, returned, counts,
                   start_index, calls>>
    /\ UNCHANGED <<missing_vars, session_type, links_file, remote_progress, gh_attempt,
                   gh_last, github_progress, telegram_links, website_links, exit_code>>
    /\ UNCHANGED <<convVars, otherVars, commitVars, takeHist>>

\* line 827 exhausted: the website loop starts.
TelegramPhaseEnd ==
    /\ pc = "telegram_phase"
    /\ Len(send_log) = Len(telegram_links)
    /\ pc' = "website_phase"
    /\ UNCHANGED sessVars
    /\ sessionFrame

\* lines 866-913: one iteration of the website loop.  A lookup that raised
\* would be caught by the handler of line 911 and leave no product.
WebsiteItem ==
    /\ pc = "website_phase"
    /\ web_i < Len(website_links)
    /\ LET i == web_i + 1
           original_link == website_links[i]
           asin == AsinOf(original_link)
           website_count == SessionConfigOf(session_type).website_links
       IN \E r \in get_real_product_info_serpapi(asin, serp_api_key, serp_request_count) :
              /\ web_i' = i
              /\ serp_request_count' = r.count
              /\ serp_requests' = serp_requests + r.requests
              /\ last_lookup' = [asin |-> asin, key |-> serp_api_key,
                                 count_before |-> serp_request_count,
                                 requests |-> r.requests, info |-> r.info]
              /\ website_products' =
                    IF r.info.raised THEN website_products
                    ELSE Append(website_products,
                                WebsiteProduct(i, original_link, r.info, session_type,
                                               current_index - website_count + i - 1))
    /\ UNCHANGED pc
    /\ UNCHANGED <<serp_api_key, last_responses, send_log, sent_count, telegram_sent,
                   post_delays, remote_feed,
                   feed_exists, feed_reads, feed_commits, update_result, session_ret>>
    /\ sessionFrame

\* line 866 exhausted: the website update phase starts.
WebsitePhaseEnd ==
    /\ pc = "website_phase"
    /\ web_i = Len(website_links)
    /\ pc' = "update_phase"
    /\ UNCHANGED sessVars
    /\ sessionFrame

\* line 919: if website_products
HasProductsNever(products) == FALSE
HasProducts(products) == products # <<>>

\* lines 577-625 with 627-661 and 663-714: update_website_products(new_products)
\* as one step.  get_website_products returns the remote list, or [] when the
\* file is absent and when its three attempts failed; the merged feed is
\* handed to commit_to_github, which returns True after a PUT that was
\* accepted; a PUT that got no response may have been applied all the same.
\* (GITHUB_TOKEN is set, main has checked it, so line 580 does not return.)
update_website_products(new_products) ==
    /\ feed_reads' = feed_reads + 1
    /\ \E fetched \in {<<>>} \cup (IF feed_exists THEN {remote_feed} ELSE {}),
          success \in BOOLEAN, applied \in BOOLEAN :
          LET merged == MergeFeed(new_products, fetched)
          IN /\ success => applied
             /\ feed_commits' = Append(feed_commits,
                                       [read |-> fetched, products |-> merged])
             /\ remote_feed' = IF applied THEN merged ELSE remote_feed
             /\ feed_exists' = (feed_exists \/ applied)
             /\ update_result' = IF success THEN "True" ELSE "False"

\* lines 919-928: the website update phase.
UpdateWebsite ==
    /\ pc = "update_phase"
    /\ IF HasProducts(website_products)
       THEN update_website_products(website_products)
       ELSE UNCHANGED <<remote_feed, feed_exists, feed_reads, feed_commits, update_result>>
    /\ pc' = "summary"
    /\ UNCHANGED <<serp_api_key, serp_request_count, serp_requests, last_lookup,
                   last_responses, web_i,
                   send_log, sent_count, telegram_sent, post_delays, website_products, session_ret>>
    /\ sessionFrame

\* line 952: return self.session_stats['telegram_sent']
ReturnValue(sent) == sent

\* lines 930-952: the summary and the return.
SessionReturn ==
    /\ pc = "summary"
    /\ pc' = "returned"
    /\ session_ret' = ReturnValue(telegram_sent)
    /\ UNCHANGED <<serp_api_key, serp_request_count, serp_requests, last_lookup,
                   last_responses, web_i,
                   send_log, sent_count, telegram_sent, post_delays, website_products, remote_feed,
                   feed_exists, feed_reads, feed_commits, update_result>>
    /\ sessionFrame

NextSession ==
    \/ SessionStart
    \/ TakeTelegram
    \/ TakeWebsite
    \/ CheckSelections
    \/ TelegramPost
    \/ TelegramPhaseEnd
    \/ WebsiteItem
    \/ WebsitePhaseEnd
    \/ UpdateWebsite
    \/ SessionReturn

SpecSession == InitSession /\ [][NextSession]_vars

-----------------------------------------------------------------------------
(* SpecFeed: update_website_products called on feeds up to the retention bound *)

\* largest number of new products a caller passes
MaxNew == 2

\* k products as the website loop of a session labelled label builds them.
NewProducts(k, label) ==
    [i \in 1..k |->
        WebsiteProduct(i, i, get_fallback_product_info(AsinOf(i)), label, i - 1)]

\* The sizes of the remote feed: near empty and near the retention bound.
FeedSizes == (0..MaxOld) \cup ((RetentionBound - MaxNew)..RetentionBound)

InitFeed ==
    /\ pc = "update_phase" /\ missing_vars = {}
    /\ session_type \in SessionLabels
    /\ links_file = <<>> /\ remote_progress = NoDocument /\ gh_attempt = 0
    /\ gh_last = "none" /\ github_progress = None
    /\ telegram_links = <<>> /\ website_links = <<>>
    /\ exit_code = "running"
    /\ links = <<>> /\ current_index = 0 /\ start_index = 0
    /\ stats_start_time = "datetime" /\ loop_running = TRUE
    /\ local_file = NoDocument
    /\ ObjFresh
    /\ CommitIdle
    /\ ConvIdle
    /\ OtherIdle
    /\ telegram_positions = <<>> /\ website_positions = <<>>
    /\ serp_api_key = FALSE
    /\ serp_request_count = 0 /\ serp_requests = 0 /\ last_lookup = NoLookup
    /\ last_responses = <<>>
    /\ send_log = <<>> /\ sent_count = 0 /\ telegram_sent = 0 /\ post_delays = <<>>
    /\ \E k \in 1..MaxNew :
          /\ website_products = NewProducts(k, session_type)
          /\ web_i = k
    /\ feed_exists \in BOOLEAN
    /\ IF feed_exists
       THEN \E m \in FeedSizes : remote_feed = OldFeed(m)
       ELSE remote_feed = <<>>
    /\ feed_reads = 0 /\ feed_commits = <<>> /\ update_result = "none"
    /\ session_ret = None

NextFeed == UpdateWebsite

SpecFeed == InitFeed /\ [][NextFeed]_vars

-----------------------------------------------------------------------------
(* SpecConvert: convert_amazon_link applied to a URL and then to its result *)

\* A URL is the sequence of its parts: a scheme and host, path markers
\* ("/dp/", "/gp/product/", "/p" for any other path), identifiers, the
\* separators "?" and "&", parameter keys ("tag=", "ref=", "asin=", "x=") and
\* values.  No part but "?" holds a '?', no part but "&" holds a '&'.

\* line 28: AMAZON_AFFILIATE_TAG
AMAZON_AFFILIATE_TAG == "new-21"

\* lines 270, 276: the scheme and host of the link built from an identifier
MarketplaceHost == "https://www.amazon.in"

ShortLinkHost == "https://amzn.to"

\* The parts that match [A-Z0-9]{10}.
Asins == {AsinTable[1], AsinTable[2]}

\* A part in the place of an identifier that [A-Z0-9]{10} does not match.
NotAnAsin == "b08n5wrwnw"

\* largest number of query parameters of an input URL
MaxParams == 2
\* largest number of short links one conversion follows
MaxRedirects == 2

\* The query parameters of the input URLs, as <<key, value>>.
Params ==
    {<<"tag=", "old-20">>, <<"ref=", "sr_1">>, <<"x=", "1">>, <<"asin=", NotAnAsin>>}
    \cup {<<"asin=", a>> : a \in Asins}

\* The paths of the input URLs.
Paths ==
    {<<"/p">>, <<"/dp/", NotAnAsin>>}
    \cup {<<"/dp/", a>> : a \in Asins}
    \cup {<<"/gp/product/", a>> : a \in Asins}
    \cup {<<"/gp/product/", AsinTable[1], "/dp/", AsinTable[2]>>}

Hosts == {"https://site", MarketplaceHost, ShortLinkHost}

\* The query string of a sequence of parameters.
RECURSIVE QueryString(_, _)
QueryString(params, first) ==
    IF params = <<>> THEN <<>>
    ELSE <<IF first THEN "?" ELSE "&", Head(params)[1], Head(params)[2]>>
         \o QueryString(Tail(params), FALSE)

ParamSeqs == UNION {[1..n -> Params] : n \in 0..MaxParams}

InputUrls == {<<h>> \o p \o QueryString(q, TRUE) : h \in Hosts, p \in Paths, q \in ParamSeqs}

\* [^&]* at the head of rest: what follows the parts it matches.
RECURSIVE DropValue(_)
DropValue(rest) ==
    IF rest = <<>> \/ Head(rest) = "&" THEN rest ELSE DropValue(Tail(rest))

\* lines 263, 264: re.sub(r'[?&]<key>[^&]*', '', url)
RECURSIVE StripParam(_, _)
StripParam(url, key) ==
    IF Len(url) < 2 THEN url
    ELSE IF Head(url) \in {"?", "&"} /\ url[2] = key
    THEN StripParam(DropValue(SubSeq(url, 3, Len(url))), key)
    ELSE <<Head(url)>> \o StripParam(Tail(url), key)

\* re.search(r'<marker>([A-Z0-9]{10})', url).group(1), NoAsin when there is
\* no match.
SearchAsin(url, markers) ==
    LET hits == {i \in 1..(Len(url) - 1) : url[i] \in markers /\ url[i + 1] \in Asins}
    IN IF hits = {} THEN NoAsin
       ELSE url[(CHOOSE i \in hits : \A j \in hits : i <= j) + 1]

\* lines 295-314: extract_asin_from_url.  The pattern /product/ also matches
\* inside /gp/product/.
extract_asin_from_url(url) ==
    IF SearchAsin(url, {"/dp/"}) # NoAsin THEN SearchAsin(url, {"/dp/"})
    ELSE IF SearchAsin(url, {"/gp/product/"}) # NoAsin
    THEN SearchAsin(url, {"/gp/product/"})
    ELSE IF SearchAsin(url, {"asin="}) # NoAsin THEN SearchAsin(url, {"asin="})
    ELSE SearchAsin(url, {"/product/", "/gp/product/"})

\* lines 270, 276: f"https://www.amazon.in/dp/{asin}?tag={AMAZON_AFFILIATE_TAG}"
CanonicalLinkUntagged(asin) == <<MarketplaceHost, "/dp/", asin>>
CanonicalLink(asin) == <<MarketplaceHost, "/dp/", asin, "?", "tag=", AMAZON_AFFILIATE_TAG>>

Parts(url) == {url[k] : k \in DOMAIN url}

\* lines 288-289: the fallback, the tag appended with '&' or '?'
AppendTag(url) ==
    url \o <<IF "?" \in Parts(url) THEN "&" ELSE "?", "tag=", AMAZON_AFFILIATE_TAG>>

\* line 279: 'amzn.to' in url
IsShortLink(url) == ShortLinkHost \in Parts(url)

\* lines 263-289 up to the HEAD request: what one call does with url, either
\* a value to return or the stripped URL to send the request for.
ConvertStep(url) ==
    LET stripped == StripParam(StripParam(url, "tag="), "ref=")
        asin_match == SearchAsin(stripped, {"/dp/"})
        product_match == SearchAsin(stripped, {"/gp/product/"})
    IN IF asin_match # NoAsin
       THEN [head |-> FALSE, url |-> CanonicalLink(asin_match)]
       ELSE IF product_match # NoAsin
       THEN [head |-> FALSE, url |-> CanonicalLink(product_match)]
       ELSE IF IsShortLink(stripped)
       THEN [head |-> TRUE, url |-> stripped]
       ELSE [head |-> FALSE, url |-> AppendTag(stripped)]

\* What response.url can be after the redirects of line 281: a product page,
\* a page without an identifier, or a short link again.
ResolvedUrls ==
    {<<MarketplaceHost, "/dp/", AsinTable[2], "?", "ref=", "sr_1">>,
     <<MarketplaceHost, "/p", "?", "x=", "1">>,
     <<ShortLinkHost, "/p">>}

ConvIdleRest ==
    /\ links = <<>> /\ current_index = 0 /\ start_index = 0
    /\ stats_start_time = "None" /\ loop_running = TRUE
    /\ local_file = NoDocument
    /\ ObjFresh
    /\ MainIdle
    /\ CommitIdle
    /\ SessIdle
    /\ OtherIdle

InitConvert ==
    /\ cv_input \in InputUrls
    /\ cv_url = cv_input
    /\ cv_pc = "call" /\ cv_out = <<>> /\ cv_first = <<>>
    /\ cv_round = 1 /\ cv_depth = 0 /\ cv_heads = 0
    /\ ConvIdleRest

convertFrame == UNCHANGED <<objVars, mainVars, commitVars, takeHist, sessVars, otherVars>>

\* lines 259-279 and 287-289: a call of convert_amazon_link up to its return
\* or to its HEAD request.  A value returned by a call below the outermost is
\* returned unchanged by every call above it (line 283).
ConvertCall ==
    /\ cv_pc = "call"
    /\ LET r == ConvertStep(cv_url)
       IN IF r.head
          THEN /\ cv_pc' = "head"
               /\ cv_url' = r.url
               /\ UNCHANGED cv_out
          ELSE /\ cv_pc' = "done"
               /\ cv_out' = r.url
               /\ UNCHANGED cv_url
    /\ UNCHANGED <<cv_input, cv_first, cv_round, cv_depth, cv_heads>>
    /\ convertFrame

\* lines 280-289: the HEAD request.  It raises (no response, too many
\* redirects) and the call falls through to the fallback, or it gives the
\* final URL, which is converted by a call one level down.
ConvertHead ==
    /\ cv_pc = "head"
    /\ \/ /\ cv_pc' = "done"
          /\ cv_out' = AppendTag(cv_url)
          /\ UNCHANGED <<cv_url, cv_depth, cv_heads>>
       \/ /\ cv_depth < MaxRedirects
          /\ \E resolved_url \in ResolvedUrls :
                /\ cv_url' = resolved_url
                /\ cv_pc' = "call"
                /\ cv_depth' = cv_depth + 1
                /\ cv_heads' = cv_heads + 1
          /\ UNCHANGED cv_out
    /\ UNCHANGED <<cv_input, cv_first, cv_round>>
    /\ convertFrame

\* The caller applies convert_amazon_link to the URL it returned.
ConvertAgain ==
    /\ cv_pc = "done" /\ cv_round = 1
    /\ cv_first' = cv_out
    /\ cv_url' = cv_out
    /\ cv_round' = 2
    /\ cv_pc' = "call"
    /\ cv_depth' = 0
    /\ UNCHANGED <<cv_input, cv_out, cv_heads>>
    /\ convertFrame

NextConvert ==
    \/ ConvertCall
    \/ ConvertHead
    \/ ConvertAgain

SpecConvert == InitConvert /\ [][NextConvert]_vars

-----------------------------------------------------------------------------
(* SpecScraper: one run of ScheduledAmazonScraper *)

\* The affiliate links there are: a link is a number, as in the link store.
MaxLinkId == 4
\* largest number of links data/amazon_links.json holds when the run starts
MaxStored == 2
\* self.max_links (line 17), the number of new links at which the scraping
\* functions stop
MaxNewLinks == 2

AffiliateLinks == 1..MaxLinkId

\* The lists without a duplicate of at most n links.
StoredLists(n) ==
    {f \in UNION {[1..k -> AffiliateLinks] : k \in 0..n} :
        \A a \in DOMAIN f, b \in DOMAIN f : f[a] = f[b] => a = b}

\* list(self.existing_links) (line 209): the elements of a set in the order
\* its iteration gives them, which for a set of strings is any order (the
\* hash of a string changes from one process to the next).
ListOfSet(S) ==
    {f \in [1..Cardinality(S) -> S] :
        \A a \in DOMAIN f, b \in DOMAIN f : f[a] = f[b] => a = b}

\* line 210: list(dict.fromkeys(all_links)), every element at its first place.
RECURSIVE RemoveDuplicates(_)
RemoveDuplicates(seq) ==
    IF seq = <<>> THEN <<>>
    ELSE LET front == RemoveDuplicates(SubSeq(seq, 1, Len(seq) - 1))
             last == seq[Len(seq)]
         IN IF \E k \in DOMAIN front : front[k] = last
            THEN front ELSE Append(front, last)

InitScraper ==
    /\ sc_pc = "load"
    /\ store_file \in StoredLists(MaxStored)
    /\ stored_before = store_file
    /\ existing_links = {} /\ new_links = <<>> /\ new_links_added = None
    /\ links = <<>> /\ current_index = 0 /\ start_index = 0
    /\ stats_start_time = "None" /\ loop_running = TRUE
    /\ local_file = NoDocument
    /\ ObjFresh
    /\ MainIdle
    /\ CommitIdle
    /\ SessIdle
    /\ ConvIdle
    /\ SendIdle /\ IdIdle /\ RaceIdle /\ RunIdle /\ DetectIdle

scraperFrame ==
    UNCHANGED <<objVars, mainVars, commitVars, takeHist, sessVars, convVars,
                sendVars, idVars, raceVars, runVars, detectVars>>

\* lines 45-54: load_existing_links, called by __init__ (line 25): the set
\* of the links of the file, the empty set when there is no file.
ScraperLoad ==
    /\ sc_pc = "load"
    /\ existing_links' = {store_file[k] : k \in DOMAIN store_file}
    /\ sc_pc' = "scrape"
    /\ UNCHANGED <<store_file, stored_before, new_links, new_links_added>>
    /\ scraperFrame

\* lines 97-107, 142-156, 185-197: a scraping function finds a product and
\* appends its link when it is not among the existing links.
ScraperFind ==
    /\ sc_pc = "scrape"
    /\ Len(new_links) < MaxNewLinks
    /\ \E affiliate_link \in AffiliateLinks :
          new_links' = IF affiliate_link \notin existing_links
                       THEN Append(new_links, affiliate_link) ELSE new_links
    /\ UNCHANGED <<sc_pc, store_file, stored_before, existing_links, new_links_added>>
    /\ scraperFrame

\* lines 204-230: save_links.
ScraperSave ==
    /\ sc_pc = "scrape"
    /\ \E existing \in ListOfSet(existing_links) :
          store_file' = RemoveDuplicates(existing \o new_links)
    /\ new_links_added' = Len(new_links)
    /\ sc_pc' = "done"
    /\ UNCHANGED <<stored_before, existing_links, new_links>>
    /\ scraperFrame

NextScraper ==
    \/ ScraperLoad
    \/ ScraperFind
    \/ ScraperSave

SpecScraper == InitScraper /\ [][NextScraper]_vars

-----------------------------------------------------------------------------
(* SpecIds: the ids of the products of two sessions that run side by side *)

\* the last second of the wall clock
MaxClock == 4

\* line 908: await asyncio.sleep(3) between two products of the website loop
WebsiteLoopSleep == 3

\* The labels the two sessions run with: one with two website products, one
\* with one.
IdLabels == {"morning", "night"}

\* line 880: f"product_{session_type}_{i}_{ist_now.strftime('%Y%m%d_%H%M%S')}".
\* The time is cut to the second.  The string determines its three parts (the
\* time has a fixed width and i is a number), so the id is the triple.
ProductId(session_label, i, second) == <<"product", session_label, i, second>>

InitIds ==
    /\ clock = 0
    /\ emitted = [s \in Sessions |-> <<>>]
    /\ id_pc = [s \in Sessions |-> "loop"]
    /\ id_label \in [Sessions -> IdLabels]
    /\ id_feed = <<>>
    /\ links = <<>> /\ current_index = 0 /\ start_index = 0
    /\ stats_start_time = "None" /\ loop_running = TRUE
    /\ local_file = NoDocument
    /\ ObjFresh
    /\ MainIdle
    /\ CommitIdle
    /\ SessIdle
    /\ ConvIdle
    /\ SendIdle /\ ScrapeIdle /\ RaceIdle /\ RunIdle /\ DetectIdle

idsFrame ==
    UNCHANGED <<objVars, mainVars, commitVars, takeHist, sessVars, convVars,
                sendVars, scrapeVars, raceVars, runVars, detectVars>>

\* A second passes.
Tick ==
    /\ clock < MaxClock
    /\ clock' = clock + 1
    /\ UNCHANGED <<emitted, id_pc, id_label, id_feed>>
    /\ idsFrame

\* lines 866-897: one iteration of the website loop of session s builds the
\* product i with its id; the iteration before it ended with the sleep of
\* line 908.
EmitProduct(s) ==
    /\ id_pc[s] = "loop"
    /\ LET i == Len(emitted[s]) + 1
           website_count == SessionConfigOf(id_label[s]).website_links
       IN /\ i <= website_count
          /\ i > 1 => clock >= emitted[s][i - 1][4] + WebsiteLoopSleep
          /\ emitted' = [emitted EXCEPT
                            ![s] = Append(@, ProductId(id_label[s], i, clock))]
          /\ id_pc' = [id_pc EXCEPT ![s] = IF i = website_count THEN "update" ELSE "loop"]
    /\ UNCHANGED <<clock, id_label, id_feed>>
    /\ idsFrame

\* lines 919-920 with 589-594: session s puts its products in front of the
\* feed; or its commit fails and the feed stays as it is.
UpdateFeedIds(s) ==
    /\ id_pc[s] = "update"
    /\ \E success \in BOOLEAN :
          id_feed' = IF success THEN emitted[s] \o id_feed ELSE id_feed
    /\ id_pc' = [id_pc EXCEPT ![s] = "done"]
    /\ UNCHANGED <<clock, emitted, id_label>>
    /\ idsFrame

NextIds ==
    \/ Tick
    \/ \E s \in Sessions : EmitProduct(s)
    \/ \E s \in Sessions : UpdateFeedIds(s)

SpecIds == InitIds /\ [][NextIds]_vars

-----------------------------------------------------------------------------
(* SpecRace: update_website_products step by step, beside another session *)

\* The product another session commits as revision v of the feed.
OtherProduct(v) ==
    [OldProduct(10 + v) EXCEPT !.session_type = "night"]

InitRace ==
    /\ pc = "feed_read" /\ missing_vars = {}
    /\ session_type \in {"morning", "night"}
    /\ links_file = <<>> /\ remote_progress = NoDocument /\ gh_attempt = 0
    /\ gh_last = "none" /\ github_progress = None
    /\ telegram_links = <<>> /\ website_links = <<>>
    /\ exit_code = "running"
    /\ links = <<>> /\ current_index = 0 /\ start_index = 0
    /\ stats_start_time = "datetime" /\ loop_running = TRUE
    /\ local_file = NoDocument
    /\ ObjFresh
    /\ ConvIdle
    /\ SendIdle /\ ScrapeIdle /\ IdIdle /\ RaceIdle /\ RunIdle /\ DetectIdle
    /\ telegram_positions = <<>> /\ website_positions = <<>>
    /\ serp_api_key = FALSE
    /\ serp_request_count = 0 /\ serp_requests = 0 /\ last_lookup = NoLookup
    /\ last_responses = <<>>
    /\ send_log = <<>> /\ sent_count = 0 /\ telegram_sent = 0 /\ post_delays = <<>>
    /\ \E k \in 1..MaxNew :
          /\ website_products = NewProducts(k, session_type)
          /\ web_i = k
    /\ feed_exists \in BOOLEAN
    /\ IF feed_exists
       THEN /\ remote_sha = 1
            /\ \E m \in 0..MaxOld : remote_feed = OldFeed(m)
       ELSE /\ remote_sha = 0
            /\ remote_feed = <<>>
    /\ feed_reads = 0 /\ feed_commits = <<>> /\ update_result = "none"
    /\ session_ret = None
    /\ c_pc = "idle" /\ c_attempt = 0 /\ c_sha = 0 /\ c_get = "none" /\ c_ret = "none"
    /\ c_log = <<>>

raceFrame ==
    /\ objUnchanged
    /\ UNCHANGED <<missing_vars, session_type, links_file, remote_progress, gh_attempt,
                   gh_last, github_progress, telegram_links, website_links, exit_code>>
    /\ UNCHANGED <<serp_api_key, serp_request_count, serp_requests, last_lookup,
                   last_responses, web_i, send_log, sent_count, telegram_sent, post_delays,
                   website_products, session_ret>>
    /\ UNCHANGED <<convVars, takeHist, sendVars, scrapeVars, idVars, runVars,
                   detectVars>>

\* lines 586, 627-661: get_website_products returns the list of the remote
\* file, [] when the file is absent, and [] when its three attempts failed;
\* then update_website_products merges (589-594) and calls commit_to_github.
RaceRead ==
    /\ pc = "feed_read"
    /\ \E fetched \in {<<>>} \cup (IF feed_exists THEN {remote_feed} ELSE {}) :
          feed_fetched' = fetched
    /\ feed_read_sha' = remote_sha
    /\ feed_between' = <<>>
    /\ feed_reads' = feed_reads + 1
    /\ feed_commits' = Append(feed_commits,
                              [read |-> feed_fetched',
                               products |-> MergeFeed(website_products, feed_fetched')])
    /\ pc' = "feed_commit"
    /\ c_pc' = "get"
    /\ UNCHANGED <<c_attempt, c_sha, c_get, c_ret, c_log, remote_sha>>
    /\ UNCHANGED <<remote_feed, feed_exists, update_result>>
    /\ raceFrame

\* lines 669-680: the GET of an attempt of the commit of the feed.
RaceGet == pc = "feed_commit" /\ CommitGet

\* line 711: the wait of the except handler.
RaceSleep == pc = "feed_commit" /\ CommitSleep

\* lines 682-705: the PUT of an attempt, carrying the merged list: when the
\* repository applies it, the remote feed is that list.
RacePut ==
    /\ pc = "feed_commit"
    /\ CommitPutStep
    /\ remote_feed' = IF remote_sha' # remote_sha
                      THEN MergeFeed(website_products, feed_fetched) ELSE remote_feed
    /\ feed_exists' = (remote_sha' # 0)
    /\ UNCHANGED <<pc, feed_reads, feed_commits, update_result>>
    /\ UNCHANGED raceVars
    /\ raceFrame

\* lines 606-613: commit_to_github returned, update_website_products returns
\* its result.
RaceReturn ==
    /\ pc = "feed_commit" /\ c_pc = "done"
    /\ update_result' = c_ret
    /\ pc' = "summary"
    /\ UNCHANGED commitVars
    /\ UNCHANGED <<remote_feed, feed_exists, feed_reads, feed_commits>>
    /\ UNCHANGED raceVars
    /\ raceFrame

\* Another session updates the feed: it reads the feed, puts its product in
\* front and its commit is accepted, nothing coming between.
OtherSession ==
    /\ pc \in {"feed_read", "feed_commit"} /\ c_pc # "done"
    /\ remote_sha < MaxVersion
    /\ remote_feed' = MergeFeed(<<OtherProduct(remote_sha + 1)>>, remote_feed)
    /\ remote_sha' = remote_sha + 1
    /\ feed_exists' = TRUE
    /\ feed_between' = IF pc = "feed_commit"
                       THEN <<OtherProduct(remote_sha + 1)>> \o feed_between
                       ELSE feed_between
    /\ UNCHANGED <<c_pc, c_attempt, c_sha, c_get, c_ret, c_log>>
    /\ UNCHANGED <<pc, feed_reads, feed_commits, update_result, feed_fetched, feed_read_sha>>
    /\ raceFrame

NextRace ==
    \/ RaceRead
    \/ RaceGet
    \/ RaceSleep
    \/ RacePut
    \/ RaceReturn
    \/ OtherSession

SpecRace == InitRace /\ [][NextRace]_vars

-----------------------------------------------------------------------------
(* SpecSend: one call of send_to_telegram_with_retry *)

\* line 754: max_retries=3, the default the callers use
tg_max_retries == 3

\* largest value of session_stats['errors'] a call starts from
MaxErrors == 1

\* What one send_message (line 758) can lead to: it returns; it raises a
\* TelegramError whose text holds "retry after" (flood control); it raises
\* another TelegramError; it raises another Exception.
TelegramOutcomes == {"ok", "retry_after", "telegram_error", "exception"}

\* line 770: wait_time = 60 + (attempt * 30)
RateLimitWait(attempt) == 60 + (attempt * 30)

\* line 774: 5 * (attempt + 1)
TelegramErrorWait(attempt) == 5 * (attempt + 1)

\* line 783: 3 * (attempt + 1)
ExceptionWait(attempt) == 3 * (attempt + 1)

\* lines 773, 782: if attempt < max_retries - 1
HasAttemptLeft(attempt) == attempt < tg_max_retries - 1

InitSend ==
    /\ tg_pc = "send" /\ tg_attempt = 0 /\ tg_wait = 0 /\ tg_log = <<>>
    /\ tg_ret = "none"
    /\ tg_errors \in 0..MaxErrors
    /\ links = <<>> /\ current_index = 0 /\ start_index = 0
    /\ stats_start_time = "datetime" /\ loop_running = TRUE
    /\ local_file = NoDocument
    /\ ObjFresh
    /\ MainIdle
    /\ CommitIdle
    /\ SessIdle
    /\ ConvIdle
    /\ ScrapeIdle /\ IdIdle /\ RaceIdle /\ RunIdle /\ DetectIdle

sendFrame ==
    UNCHANGED <<objVars, mainVars, commitVars, takeHist, sessVars, convVars,
                scrapeVars, idVars, raceVars, runVars, detectVars>>

\* lines 756-786: one attempt: send_message and, when it raised, the handler
\* up to its wait or its return.
TelegramSend ==
    /\ tg_pc = "send"
    /\ \E r \in TelegramOutcomes :
          /\ tg_log' = Append(tg_log, [op |-> "send", attempt |-> tg_attempt,
                                       outcome |-> r, seconds |-> 0])
          /\ CASE r = "ok" ->
                    /\ tg_ret' = "True" /\ tg_pc' = "done"
                    /\ UNCHANGED <<tg_wait, tg_errors>>
               [] r = "retry_after" ->
                    /\ tg_wait' = RateLimitWait(tg_attempt) /\ tg_pc' = "sleep"
                    /\ UNCHANGED <<tg_ret, tg_errors>>
               [] r = "telegram_error" ->
                    IF HasAttemptLeft(tg_attempt)
                    THEN /\ tg_wait' = TelegramErrorWait(tg_attempt) /\ tg_pc' = "sleep"
                         /\ UNCHANGED <<tg_ret, tg_errors>>
                    ELSE /\ tg_errors' = tg_errors + 1
                         /\ tg_ret' = "False" /\ tg_pc' = "done"
                         /\ UNCHANGED tg_wait
               [] r = "exception" ->
                    IF HasAttemptLeft(tg_attempt)
                    THEN /\ tg_wait' = ExceptionWait(tg_attempt) /\ tg_pc' = "sleep"
                         /\ UNCHANGED <<tg_ret, tg_errors>>
                    ELSE /\ tg_errors' = tg_errors + 1
                         /\ tg_ret' = "False" /\ tg_pc' = "done"
                         /\ UNCHANGED tg_wait
    /\ UNCHANGED tg_attempt
    /\ sendFrame

\* lines 772, 774, 783: the wait; then the next attempt, or line 788 when the
\* for loop is exhausted.
TelegramSleep ==
    /\ tg_pc = "sleep"
    /\ tg_log' = Append(tg_log, [op |-> "sleep", attempt |-> tg_attempt,
                                 outcome |-> "", seconds |-> tg_wait])
    /\ IF tg_attempt + 1 < tg_max_retries
       THEN /\ tg_attempt' = tg_attempt + 1 /\ tg_pc' = "send"
            /\ UNCHANGED tg_ret
       ELSE /\ tg_ret' = "False" /\ tg_pc' = "done"
            /\ UNCHANGED tg_attempt
    /\ UNCHANGED <<tg_wait, tg_errors>>
    /\ sendFrame

NextSend ==
    \/ TelegramSend
    \/ TelegramSleep

SpecSend == InitSend /\ [][NextSend]_vars

-----------------------------------------------------------------------------
(* Properties of the cursor, checked under SpecTake *)

Min(a, b) == IF a < b THEN a ELSE b

RECURSIVE SumCapped(_, _)
SumCapped(cs, cap) ==
    IF cs = <<>> THEN 0 ELSE Min(Head(cs), cap) + SumCapped(Tail(cs), cap)

RECURSIVE Sum(_)
Sum(cs) == IF cs = <<>> THEN 0 ELSE Head(cs) + Sum(Tail(cs))

\* The k-th item of the round robin over the store that starts at index s.
RoundRobin(s, k) == links[((s + k - 1) % Len(links)) + 1]

PersistedRecords ==
    {d \in {local_file, gh_task.data} : d.state # "absent" /\ d.total_links > 0}

C4_EmptyStoreSafety ==
    links = <<>> =>
        /\ last_call.selected = <<>> /\ returned = <<>>
        /\ current_index = start_index
        /\ local_file = NoDocument /\ progress_data = NoDocument
        /\ gh_task = NoTask /\ save_outcome = "none"

\* C4 witness: get_next_links(3, "website") was called on an empty store whose
\* cursor was loaded as 2.
C4_Witness ==
    /\ links = <<>> /\ calls > 0 /\ last_call.purpose = "website"
    /\ last_call.count = 3 /\ start_index = 2

-----------------------------------------------------------------------------
(* Properties of one run of main(), checked under Spec *)

\* C5 as stated: when the website take of a session has completed,
\* save_progress has written a whole progress record to the local file whose
\* current_index is the in-memory cursor, has scheduled the commit of the same
\* record to the remote document, and did not end in its error handler.
C5_SaveProgressPersists ==
    pc = "posting" =>
        /\ local_file.state = "complete"
        /\ local_file.current_index = current_index
        /\ gh_task.state = "scheduled"
        /\ gh_task.data = local_file
        /\ save_outcome = "ok"

\* What the code does instead in every session: json.dump raises on the
\* datetime that send_scheduled_links stored in session_stats, the local file
\* is left truncated, save_progress ends in its handler and no remote update
\* task is ever created.
SessionSaveAlwaysFails ==
    /\ gh_task = NoTask
    /\ pc \in {"posting", "returned", "exited"} /\ exit_code # "1" =>
          /\ save_outcome = "error"
          /\ local_file.state = "truncated"
          /\ local_file.current_index = current_index

\* C7: the cursor main starts with is the current_index of the remote progress
\* document whenever the remote fetch returned a document, whatever the local
\* file holds; otherwise the current_index of the local file if that file
\* exists and parses; otherwise 0.  (A document without the key counts as 0.)
C7_LoadPrecedence ==
    pc \in {"check_links", "session_start", "take_telegram"} =>
        /\ current_index = start_index
        /\ IF gh_last = "200"
           THEN start_index = (IF remote_progress.has_index
                               THEN remote_progress.current_index ELSE 0)
           ELSE IF local_file.state = "complete"
           THEN start_index = (IF local_file.has_index
                               THEN local_file.current_index ELSE 0)
           ELSE start_index = 0

\* C7 witness: the remote document (index 3) was fetched on the third attempt
\* and wins over a local file that parses and holds another index (1).
C7_Witness ==
    /\ pc = "check_links" /\ gh_last = "200" /\ gh_attempt = 2
    /\ remote_progress.current_index = 3
    /\ local_file.state = "complete" /\ local_file.current_index = 1
    /\ current_index = 3

-----------------------------------------------------------------------------
(* Properties of commit_to_github, checked under SpecCommit *)

LogIndexes(op) == {i \in DOMAIN c_log : c_log[i].op = op}

\* The GET of the attempt that entry i of the log belongs to.
GetOfAttempt(i) ==
    CHOOSE g \in LogIndexes("GET") : c_log[g].attempt = c_log[i].attempt

\* C8 as stated: in every attempt the PUT carries the revision token that
\* attempt's GET returned when the GET found the file, and the PUT omits the
\* token only when the GET reported the file absent (404).
C8_PutTokenFromGet ==
    \A p \in LogIndexes("PUT") :
        LET g == c_log[GetOfAttempt(p)]
        IN /\ g.status = "200" => (c_log[p].arg = g.arg /\ c_log[p].arg # 0)
           /\ c_log[p].arg = 0 => g.status = "404"

\* C9: commit_to_github returns True iff some PUT among at most 3 attempts got
\* 200 or 201, and issues no request after that PUT; otherwise it returns False
\* after exactly 3 attempts; it never raises.
C9_CommitResult ==
    LET committed == {p \in LogIndexes("PUT") : c_log[p].status \in {"200", "201"}}
        attempts == {c_log[g].attempt : g \in LogIndexes("GET")}
    IN /\ c_ret \in {"none", "True", "False"}
       /\ Cardinality(LogIndexes("GET")) <= 3
       /\ Cardinality(LogIndexes("PUT")) <= Cardinality(LogIndexes("GET"))
       /\ \A p \in committed :
             /\ p = Len(c_log) - 1
             /\ c_log[Len(c_log)] = LogEntry("RETURN", c_log[p].attempt, "True", 0)
       /\ c_pc = "done" =>
             /\ c_ret \in {"True", "False"}
             /\ c_ret = "True" <=> committed # {}
             /\ c_ret = "False" =>
                   /\ attempts = {0, 1, 2}
                   /\ Cardinality(LogIndexes("GET")) = 3
       /\ c_pc # "done" => c_ret = "none"

\* C9 witness: the call returned True on its third attempt, after a PUT that
\* was rejected and a GET that raised.
C9_Witness ==
    /\ c_pc = "done" /\ c_ret = "True" /\ c_attempt = 2
    /\ \E p \in LogIndexes("PUT") : c_log[p].attempt = 0 /\ c_log[p].status = "409"
    /\ \E g \in LogIndexes("GET") : c_log[g].attempt = 1 /\ c_log[g].status = "exception"
    /\ c_log[Len(c_log) - 1].status = "200"

\* C10 as stated: every retry that follows a failed attempt is preceded by an
\* exponential-backoff wait, whether the attempt failed with an exception or
\* with a status other than 200/201.
C10_BackoffBeforeEveryRetry ==
    \A g \in LogIndexes("GET") :
        c_log[g].attempt > 0 =>
            /\ g > 1
            /\ c_log[g - 1].op = "SLEEP"
            /\ c_log[g - 1].arg = Pow2(c_log[g].attempt - 1)

\* What the code does: the wait precedes a retry exactly when the failed
\* attempt ended with an exception.
BackoffOnlyAfterException ==
    \A g \in LogIndexes("GET") :
        c_log[g].attempt > 0 =>
            IF c_log[g - 1].op = "SLEEP"
            THEN /\ c_log[g - 2].status = "exception"
                 /\ c_log[g - 1].arg = Pow2(c_log[g].attempt - 1)
            ELSE c_log[g - 1].op = "PUT" /\ c_log[g - 1].status # "exception"

-----------------------------------------------------------------------------
(* Properties of one session, checked under SpecSession *)

Elements(seq) == {seq[k] : k \in DOMAIN seq}

\* Both takes of the session have been made.
TakesDone == pc \in {"posting", "telegram_phase", "website_phase", "update_phase",
                     "summary", "returned"} /\ links # <<>>

\* C11 as stated: no store position is returned by both the chat take and the
\* website take of one session, for every store length L >= 1 and every
\* session label.
C11_SelectionsNeverOverlap ==
    Elements(telegram_positions) \cap Elements(website_positions) = {}

\* C11 amended: the two takes of a session return disjoint store positions
\* exactly when the chat quota plus the website quota is at most the store
\* length L; on a shorter store the website take wraps onto positions the
\* chat take returned.
C11_DisjointIffQuotasFit ==
    TakesDone =>
        LET config == SessionConfigOf(session_type)
        IN (Elements(telegram_positions) \cap Elements(website_positions) = {})
           <=> (config.telegram_links + config.website_links <= Len(links))

\* C11 witness: an evening session (2 + 1) on a store of four links that
\* starts at the last position: the chat take wraps and the takes are disjoint.
C11_Witness ==
    /\ TakesDone /\ session_type = "evening" /\ Len(links) = 4
    /\ telegram_positions = <<3, 0>> /\ website_positions = <<1>>

\* The chat loop of the session has ended.
ChatLoopDone == pc \in {"website_phase", "update_phase", "summary"}
                \/ (pc = "returned" /\ links # <<>>)

\* The website loop of the session has ended.
WebsiteLoopDone == pc \in {"update_phase", "summary"} \/ (pc = "returned" /\ links # <<>>)

\* C13: a failed send and a failed lookup do not end the session: once the
\* chat loop has ended every selected chat item has had one send attempt,
\* whatever the earlier attempts returned; once the website loop has ended
\* every selected website item has exactly one WebsiteProduct, in order, which
\* holds either the product the lookup fetched or the fallback data for the
\* item's identifier (always the latter without a credential); and a session
\* on a non-empty store returns only after both loops.
C13_FailuresDoNotAbort ==
    /\ pc = "telegram_phase" => Len(send_log) <= Len(telegram_links)
    /\ ChatLoopDone => Len(send_log) = Len(telegram_links)
    /\ pc = "website_phase" =>
          /\ web_i <= Len(website_links)
          /\ Len(website_products) = web_i
    /\ WebsiteLoopDone =>
          /\ web_i = Len(website_links)
          /\ Len(website_products) = Len(website_links)
    /\ \A i \in DOMAIN website_products :
          LET product == website_products[i]
              asin == AsinOf(website_links[i])
              fallback == get_fallback_product_info(asin)
          IN /\ product.i = i
             /\ product.original_link = website_links[i]
             /\ product.data_source \in {"serpapi", "fallback"}
             /\ product.data_source = "fallback" =>
                   product.title = fallback.title /\ product.asin = fallback.asin
             /\ ~serp_api_key => product.data_source = "fallback"
             /\ i = web_i => /\ ~last_lookup.info.raised
                             /\ product.data_source = last_lookup.info.source
    /\ (pc = "returned" /\ links # <<>>) => session_ret # None

\* C13 witness: a morning session that returned after its first and third
\* sends failed and the second succeeded, and after the lookup of its first
\* website item failed in both attempts (fallback data) and the lookup of the
\* second fetched a product.
C13_Witness ==
    /\ pc = "returned" /\ session_type = "morning"
    /\ send_log = <<FALSE, TRUE, FALSE>>
    /\ serp_api_key /\ serp_requests = 3
    /\ Len(website_products) = 2
    /\ website_products[1].data_source = "fallback"
    /\ website_products[2].data_source = "serpapi"

\* The number of sends of the session that returned True.
RECURSIVE Successes(_)
Successes(log) ==
    IF log = <<>> THEN 0
    ELSE (IF Head(log) THEN 1 ELSE 0) + Successes(Tail(log))

\* C14: send_scheduled_links returns the number of chat items of the run
\* whose send succeeded, a number between 0 and the number of chat items
\* selected, which is at most the chat quota of the session.
C14_ReturnsSentCount ==
    /\ sent_count = Successes(send_log)
    /\ telegram_sent = sent_count
    /\ pc = "returned" =>
          /\ session_ret = Successes(send_log)
          /\ 0 <= session_ret
          /\ session_ret <= Len(telegram_links)
          /\ Len(telegram_links) <= SessionConfigOf(session_type).telegram_links
    /\ pc # "returned" => session_ret = None

\* C14 witness: a morning session returned 2 after the sends of its first and
\* third chat items succeeded and the send of the second failed.
C14_Witness ==
    /\ pc = "returned" /\ session_type = "morning"
    /\ Len(telegram_links) = 3
    /\ send_log = <<TRUE, FALSE, TRUE>>
    /\ session_ret = 2

C15_NoProductCase ==
    /\ pc = "returned" /\ links = <<>> /\ website_products = <<>>
    /\ feed_reads = 0 /\ feed_commits = <<>>
    /\ feed_exists /\ remote_feed = OldFeed(1)

-----------------------------------------------------------------------------
(* Properties of the feed update, checked under SpecFeed *)

\* C12: update_website_products commits a feed of min(k + m, 100) entries,
\* k being the number of new products and m the size of the feed
\* get_website_products returned; its first k entries are the new products in
\* their order, and the entries after them are the first entries of the feed
\* read, in their order.
C12_RetentionTruncation ==
    \A c \in DOMAIN feed_commits :
        LET new == website_products
            old == feed_commits[c].read
            out == feed_commits[c].products
            k == Len(new)
            m == Len(old)
        IN /\ Len(out) = Min(k + m, RetentionBound)
           /\ \A j \in 1..k : out[j] = new[j]
           /\ \A j \in (k + 1)..Len(out) : out[j] = old[j - k]

\* C12 witness: two new products merged into a feed of 99: the feed committed
\* holds 100 entries, the two new ones first, and the oldest entry is dropped.
C12_Witness ==
    /\ Len(website_products) = 2 /\ Len(feed_commits) = 1
    /\ Len(feed_commits[1].read) = 99
    /\ Len(feed_commits[1].products) = 100
    /\ feed_commits[1].products[1] = website_products[1]
    /\ feed_commits[1].products[100] = OldProduct(2)
    /\ remote_feed = feed_commits[1].products

-----------------------------------------------------------------------------
(* Properties of convert_amazon_link, checked under SpecConvert *)

\* The first application has returned.
ConvertedOnce == cv_pc = "done" /\ cv_round = 1

\* The application to the result of the first has returned.
ConvertedTwice == cv_pc = "done" /\ cv_round = 2

\* The number of tag parameters of a URL.
TagCount(url) == Cardinality({k \in DOMAIN url : url[k] = "tag="})

\* The identifier of a URL by the shapes /dp/<id>, /gp/product/<id> and
\* asin=<id>, in that order of priority.
IdentifierOf(url) ==
    IF SearchAsin(url, {"/dp/"}) # NoAsin THEN SearchAsin(url, {"/dp/"})
    ELSE IF SearchAsin(url, {"/gp/product/"}) # NoAsin
    THEN SearchAsin(url, {"/gp/product/"})
    ELSE SearchAsin(url, {"asin="})

\* C16 as stated: for an input URL that holds a well-formed identifier,
\* convert_amazon_link applied to its own output returns the URL the first
\* application returned, and that URL holds exactly one tag parameter.
C16_IdempotentConversion ==
    (ConvertedTwice /\ IdentifierOf(cv_input) # NoAsin) =>
        /\ cv_out = cv_first
        /\ TagCount(cv_out) = 1

\* What the code does: the second application returns the first result, with
\* one tag parameter, for every input whose conversions got no response to a
\* HEAD request, and no request is sent for an identifier in the shape
\* /dp/<id> or /gp/product/<id>.
IdempotentWithoutRedirect ==
    /\ (ConvertedTwice /\ cv_heads = 0) =>
          /\ cv_out = cv_first
          /\ TagCount(cv_out) = 1
    /\ SearchAsin(cv_input, {"/dp/", "/gp/product/"}) # NoAsin =>
          cv_heads = 0 /\ cv_pc # "head"

\* C17 as stated: a URL that holds an identifier in the shape /dp/<id>,
\* /gp/product/<id> or asin=<id> is converted to the canonical link of the
\* identifier of the first of these shapes that matches.
C17_CanonicalFromFirstShape ==
    (ConvertedOnce /\ IdentifierOf(cv_input) # NoAsin) =>
        cv_out = CanonicalLink(IdentifierOf(cv_input))

\* What the code does: the canonical link is built for the shapes /dp/<id> and
\* /gp/product/<id> only, /dp/ first.
CanonicalFromPathShapes ==
    LET asin == IF SearchAsin(cv_input, {"/dp/"}) # NoAsin
                THEN SearchAsin(cv_input, {"/dp/"})
                ELSE SearchAsin(cv_input, {"/gp/product/"})
    IN (ConvertedOnce /\ asin # NoAsin) => cv_out = CanonicalLink(asin)

\* The input is https://<host>/dp/<id>?tag=<old>.
IsTaggedProductLink(url) ==
    /\ Len(url) = 6
    /\ url[1] \in Hosts /\ url[2] = "/dp/" /\ url[3] \in Asins
    /\ url[4] = "?" /\ url[5] = "tag=" /\ url[6] = "old-20"

\* C18 as stated: https://<host>/dp/<id>?tag=<old> is converted to
\* https://<host>/dp/<id>?tag=<new>, host and identifier kept.
C18_HostAndIdentifierKept ==
    (ConvertedOnce /\ IsTaggedProductLink(cv_input)) =>
        cv_out = <<cv_input[1], "/dp/", cv_input[3], "?", "tag=", AMAZON_AFFILIATE_TAG>>

\* C18 amended: https://<host>/dp/<id>?tag=<old> is converted to
\* https://www.amazon.in/dp/<id>?tag=<new>: the identifier is kept, the old
\* tag is replaced by the configured one, and the host is replaced by the
\* fixed marketplace host.
C18_IdentifierKeptHostFixed ==
    (ConvertedOnce /\ IsTaggedProductLink(cv_input)) =>
        cv_out = <<"https://www.amazon.in", "/dp/", cv_input[3], "?", "tag=",
                   AMAZON_AFFILIATE_TAG>>

\* C18 witness: https://site/dp/B08N5WRWNW?tag=old-20 has been converted with
\* the tag new-21.
C18_Witness ==
    /\ ConvertedOnce
    /\ cv_input = <<"https://site", "/dp/", "B08N5WRWNW", "?", "tag=", "old-20">>
    /\ cv_out = <<"https://www.amazon.in", "/dp/", "B08N5WRWNW", "?", "tag=", "new-21">>

Separators(url) == SelectSeq(url, LAMBDA t : t \in {"?", "&"})

NonSeparators(url) == SelectSeq(url, LAMBDA t : t \notin {"?", "&"})

\* The separators of a URL are one "?" followed by "&"s.
WellFormedQuery(url) ==
    \A k \in DOMAIN Separators(url) : Separators(url)[k] = (IF k = 1 THEN "?" ELSE "&")

\* C19 as stated: a URL without an identifier that is not a short link is
\* returned with its tag and ref parameters removed and tag=<tag> appended
\* once, after '&' if the URL has a query string and after '?' otherwise, and
\* the result has a well-formed query string.
C19_FallbackWellFormed ==
    (ConvertedOnce /\ IdentifierOf(cv_input) = NoAsin /\ ~IsShortLink(cv_input)) =>
        LET n == Len(cv_out)
            kept == StripParam(StripParam(cv_input, "tag="), "ref=")
        IN /\ n >= 3
           /\ cv_out[n - 1] = "tag=" /\ cv_out[n] = AMAZON_AFFILIATE_TAG
           /\ TagCount(cv_out) = 1
           /\ "ref=" \notin Parts(cv_out)
           /\ NonSeparators(SubSeq(cv_out, 1, n - 3)) = NonSeparators(kept)
           /\ WellFormedQuery(cv_out)

\* What the code does in that case: the parts are the ones the claim names,
\* but the separators are those left by the removal, so a removed first
\* parameter leaves '&' before any '?'.
FallbackAppendsToStripped ==
    (ConvertedOnce /\ IdentifierOf(cv_input) = NoAsin /\ ~IsShortLink(cv_input)) =>
        cv_out = AppendTag(StripParam(StripParam(cv_input, "tag="), "ref="))

-----------------------------------------------------------------------------
(* Properties of the product lookup, checked under SpecGateway *)

\* C20: without an API credential get_real_product_info_serpapi returns a
\* ProductInfo whose source is "fallback" and whose title is not empty and
\* holds the identifier it was given, sends no request and leaves
\* serp_request_count as it was.  (Given None, the title holds no identifier
\* and asin is 'UNKNOWN'.)
C20_NoCredentialFallback ==
    (last_lookup # NoLookup /\ ~last_lookup.key) =>
        /\ ~last_lookup.info.raised
        /\ last_lookup.info.source = "fallback"
        /\ last_lookup.info.title # <<>>
        /\ last_lookup.info.title[1] \in Parts(fallback_titles)
        /\ IF last_lookup.asin # NoAsin
           THEN /\ last_lookup.asin \in Parts(last_lookup.info.title)
                /\ last_lookup.info.asin = last_lookup.asin
           ELSE last_lookup.info.asin = "UNKNOWN"
        /\ last_lookup.requests = 0
        /\ serp_requests = 0
        /\ serp_request_count = last_lookup.count_before

\* C20 witness: a lookup of B08N5WRWNW without a credential, the counter
\* being 3, returned the fallback title that ends with the identifier.
C20_Witness ==
    /\ ~serp_api_key /\ ~last_lookup.key
    /\ last_lookup.asin = "B08N5WRWNW"
    /\ last_lookup.info.source = "fallback"
    /\ Len(last_lookup.info.title) = 2
    /\ last_lookup.info.title[2] = "B08N5WRWNW"
    /\ last_lookup.count_before = 3 /\ serp_request_count = 3

-----------------------------------------------------------------------------
(* The product lookup: failures, the request counter *)

\* The response kinds that are a failure: an exception or error status, a
\* malformed response, an error document, an empty product result.
FailureResponses == SerpResponses \ {"product"}

C21_EmptyResultCase ==
    ~(/\ last_responses = <<"empty">>
      /\ last_lookup.info.source # "fallback")

\* C22: the request counter counts every request sent to the search API, one
\* for each lookup, so that the requests of one rate window stay within the
\* budget of 5, and a lookup made once the budget is reached sends no request
\* and returns the fallback.  For the last lookup: the counter has grown by
\* the number of requests sent, that number is at most one, a counter within
\* the budget before the lookup is within it after, and a counter at the
\* budget before the lookup means no request.
C22_CounterBoundsRequests ==
    (last_lookup # NoLookup /\ last_lookup.key) =>
        /\ serp_request_count - last_lookup.count_before = last_lookup.requests
        /\ last_lookup.requests <= 1
        /\ last_lookup.count_before <= daily_limit =>
              last_lookup.count_before + last_lookup.requests <= daily_limit
        /\ last_lookup.count_before >= daily_limit =>
              /\ last_lookup.requests = 0
              /\ last_lookup.info.source = "fallback"

\* What the code keeps of it: a lookup that starts with the counter at the
\* budget or beyond sends no request and returns the fallback, and the
\* counter never grows by more than the number of requests sent.
ShortCircuitAtBudget ==
    (last_lookup # NoLookup /\ last_lookup.key) =>
        /\ serp_request_count - last_lookup.count_before <= last_lookup.requests
        /\ last_lookup.count_before >= daily_limit =>
              /\ last_lookup.requests = 0
              /\ last_lookup.info.source = "fallback"
              /\ serp_request_count = last_lookup.count_before

\* Two requests that both raised: the counter has not moved.
UncountedRequests ==
    /\ last_lookup.key /\ last_responses = <<"exception", "exception">>
    /\ last_lookup.requests = 2
    /\ serp_request_count = last_lookup.count_before

\* A lookup that started one below the budget and ended above it.
BudgetExceeded ==
    /\ last_lookup.key /\ last_lookup.count_before = daily_limit - 1
    /\ last_responses = <<"malformed", "product">>
    /\ serp_request_count = daily_limit + 1

-----------------------------------------------------------------------------
(* main: configuration and exit status *)

\* No request has been sent: no fetch of the remote progress document, no
\* chat message, no product lookup, no read of the feed and no commit.
NoNetworkActivity ==
    /\ gh_attempt = 0 /\ gh_last = "none"
    /\ send_log = <<>>
    /\ serp_requests = 0 /\ last_lookup = NoLookup /\ last_responses = <<>>
    /\ feed_reads = 0 /\ feed_commits = <<>>
    /\ c_log = <<>> /\ gh_task = NoTask

\* C23: when BOT_TOKEN, CHANNEL_ID, AMAZON_TAG or the GitHub token has no
\* value, main ends with exit status 1 and no request is ever sent: the run
\* is either still at the start of main or has exited with 1, and nothing
\* was loaded or fetched.
C23_MissingConfigAbortsBeforeNetwork ==
    missing_vars # {} =>
        /\ pc \in {"main", "exited"}
        /\ pc = "exited" => exit_code = "1"
        /\ NoNetworkActivity
        /\ links = <<>> /\ github_progress = None

\* A run without the GitHub token alone has exited with 1.
C23_Witness ==
    /\ missing_vars = {"GITHUB_TOKEN"}
    /\ pc = "exited" /\ exit_code = "1"
    /\ NoNetworkActivity

EmptyStoreExitsNonZero ==
    /\ pc = "exited" /\ exit_code = "1"
    /\ missing_vars = {} /\ links = <<>>

-----------------------------------------------------------------------------
(* send_to_telegram_with_retry: attempts, waits and result *)

SendEntries == {k \in DOMAIN tg_log : tg_log[k].op = "send"}
SleepEntries == {k \in DOMAIN tg_log : tg_log[k].op = "sleep"}

\* The wait at position k follows a rate-limit error.
IsRateLimitWait(k) ==
    /\ k \in SleepEntries /\ k > 1
    /\ tg_log[k - 1].op = "send" /\ tg_log[k - 1].outcome = "retry_after"

\* C25: a rate-limit error is followed by a wait longer than the wait after
\* any other error and then by one more send attempt; the call makes at most
\* 3 send attempts, returns True at the first success, with no attempt after
\* it, and False otherwise.
C25_RateLimitWaitThenRetry ==
    /\ \A k \in SleepEntries, j \in SleepEntries :
            (IsRateLimitWait(k) /\ ~IsRateLimitWait(j)) =>
                tg_log[k].seconds > tg_log[j].seconds
    /\ Cardinality(SendEntries) <= 3
    /\ \A k \in SendEntries : tg_log[k].outcome = "ok" => k = Len(tg_log)
    /\ tg_pc = "done" =>
          /\ tg_ret \in {"True", "False"}
          /\ tg_ret = "True" <=> tg_log[Len(tg_log)].outcome = "ok"
          /\ \A k \in SendEntries :
                tg_log[k].outcome = "retry_after" =>
                    /\ IsRateLimitWait(k + 1)
                    /\ k + 2 \in SendEntries

\* What the code keeps of it: the bound of 3 attempts, the result, the
\* longer wait after a rate-limit error; and a retry after every error but
\* the third.
SendAttemptsAndResult ==
    /\ \A k \in SleepEntries, j \in SleepEntries :
            (IsRateLimitWait(k) /\ ~IsRateLimitWait(j)) =>
                tg_log[k].seconds > tg_log[j].seconds
    /\ Cardinality(SendEntries) <= 3
    /\ \A k \in SendEntries : tg_log[k].outcome = "ok" => k = Len(tg_log)
    /\ tg_pc = "done" =>
          /\ tg_ret \in {"True", "False"}
          /\ tg_ret = "True" <=> tg_log[Len(tg_log)].outcome = "ok"
          /\ tg_ret = "False" => Cardinality(SendEntries) = 3
          /\ \A k \in SendEntries :
                (tg_log[k].outcome # "ok" /\ tg_log[k].attempt < 2) =>
                    /\ k + 1 \in SleepEntries
                    /\ k + 2 \in SendEntries

\* Three rate-limit errors: the call has waited 120 seconds after the third
\* and returned False without another attempt and without counting an error.
RateLimitedThirdTime ==
    /\ tg_pc = "done" /\ tg_ret = "False"
    /\ Len(tg_log) = 6
    /\ tg_log[5].outcome = "retry_after"
    /\ tg_log[6].op = "sleep" /\ tg_log[6].seconds = 120
    /\ tg_errors = 0

-----------------------------------------------------------------------------
(* The scraper's link store *)

IsPrefix(a, b) == Len(a) <= Len(b) /\ SubSeq(b, 1, Len(a)) = a

\* C26: the link store save_links writes has no duplicate, holds every link
\* stored before and every new link, and keeps first-seen order: the links
\* stored before come first, in the order and at the positions they had, and
\* the new links follow in the order of their discovery.
C26_StoreKeepsFirstSeenOrder ==
    sc_pc = "done" =>
        /\ Cardinality(Elements(store_file)) = Len(store_file)
        /\ Elements(store_file) = Elements(stored_before) \cup Elements(new_links)
        /\ IsPrefix(stored_before, store_file)
        /\ SubSeq(store_file, Len(stored_before) + 1, Len(store_file))
              = RemoveDuplicates(new_links)

\* What the code keeps of it: no duplicate, no link lost, and the new links
\* after the stored ones in the order of their discovery.
StoreKeepsLinks ==
    sc_pc = "done" =>
        /\ Cardinality(Elements(store_file)) = Len(store_file)
        /\ Elements(store_file) = Elements(stored_before) \cup Elements(new_links)
        /\ Elements(SubSeq(store_file, 1, Len(stored_before))) = Elements(stored_before)
        /\ SubSeq(store_file, Len(stored_before) + 1, Len(store_file))
              = RemoveDuplicates(new_links)

\* The two links stored before have changed places.
StoredLinksReordered ==
    /\ sc_pc = "done"
    /\ stored_before = <<1, 2>>
    /\ SubSeq(store_file, 1, 2) = <<2, 1>>

-----------------------------------------------------------------------------
(* The ids of the products of the feed *)

\* C27: no two entries of the product feed have the same id, whether one
\* session emitted both or two sessions did, two sessions with the same label
\* emitting in the same second included.
C27_FeedIdsUnique ==
    \A a \in DOMAIN id_feed, b \in DOMAIN id_feed : id_feed[a] = id_feed[b] => a = b

\* What the code keeps of it: the ids one session emits differ from each
\* other.
IdsUniqueWithinSession ==
    \A s \in Sessions :
        \A a \in DOMAIN emitted[s], b \in DOMAIN emitted[s] :
            emitted[s][a] = emitted[s][b] => a = b

\* Two sessions with the same label have built their first product in the
\* same second, and both are in the feed under one id.
SameIdTwiceInFeed ==
    /\ id_label[1] = id_label[2]
    /\ Len(id_feed) = 2
    /\ id_feed[1] = id_feed[2]

-----------------------------------------------------------------------------
(* The session configuration *)

-----------------------------------------------------------------------------
(* The product feed under concurrent updates and failed reads *)

\* The PUT requests of the commit that the repository answered with 200 or
\* 201.
AcceptedPuts ==
    {k \in DOMAIN c_log : c_log[k].op = "PUT" /\ c_log[k].status \in {"200", "201"}}

\* C29: no update of the feed is lost: a commit of the feed is accepted only
\* while the remote document is at the revision whose list the session read
\* and merged into, and after a commit that succeeded the feed still holds
\* every product another session committed between the read and the write.
C29_NoLostUpdate ==
    /\ \A k \in AcceptedPuts : c_log[k].arg = feed_read_sha
    /\ (pc = "summary" /\ update_result = "True") =>
          \A k \in DOMAIN feed_between : feed_between[k] \in Elements(remote_feed)

\* What the code keeps of it: the PUT carries the revision token its own
\* attempt has just read, so it is accepted only when no commit came between
\* that GET and the PUT.
AcceptedPutCarriesTokenOfItsGet ==
    \A k \in AcceptedPuts :
        /\ k > 1
        /\ c_log[k - 1].op = "GET" /\ c_log[k - 1].attempt = c_log[k].attempt
        /\ c_log[k].arg = c_log[k - 1].arg

\* The session read the feed at revision 1, another session committed a
\* product, and the session's commit succeeded at its first attempt and
\* replaced the feed with a list that does not hold that product.
LostUpdate ==
    /\ pc = "summary" /\ update_result = "True"
    /\ feed_read_sha = 1 /\ remote_sha = 3
    /\ Len(c_log) = 3
    /\ feed_between = <<OtherProduct(2)>>
    /\ OtherProduct(2) \notin Elements(remote_feed)
    /\ remote_feed = MergeFeed(website_products, feed_fetched)

\* C30: update_website_products removes entries of the feed only by the cut
\* to the retention bound: when its commit succeeded, every product that was
\* in the remote feed before and whose place after the new products is
\* within the first 100 is in the feed after, also when the read of the feed
\* failed.
C30_OnlyTruncationRemoves ==
    [][(pc = "update_phase" /\ update_result' = "True") =>
          \A k \in DOMAIN remote_feed :
              Len(website_products) + k <= RetentionBound =>
                  remote_feed[k] \in Elements(remote_feed')]_vars

\* What the code keeps of it: the same, for the updates whose read returned
\* the list of the remote feed.
TruncationOnlyAfterGoodRead ==
    [][(/\ pc = "update_phase" /\ update_result' = "True"
        /\ feed_commits'[Len(feed_commits')].read = remote_feed) =>
          \A k \in DOMAIN remote_feed :
              Len(website_products) + k <= RetentionBound =>
                  remote_feed[k] \in Elements(remote_feed')]_vars

\* An update that succeeded after a failed read: the feed holds the new
\* products and nothing else.
FeedReplacedAfterFailedRead ==
    /\ pc = "summary" /\ update_result = "True"
    /\ feed_commits[1].read = <<>>
    /\ remote_feed = website_products

-----------------------------------------------------------------------------
(* Retries of commit_to_github after a rejected PUT, checked under SpecCommit *)

\* The PUTs the repository rejected because their token did not fit the file.
StalePuts == {p \in LogIndexes("PUT") : c_log[p].status = "409"}

\* C31: a PUT rejected for a stale revision token is never retried with the
\* same token: every PUT, retries included, directly follows the GET of its own
\* attempt and carries what that GET returned (nothing when the GET did not
\* return the file), no later PUT repeats the token of a rejected one, and the
\* call sends at most 3 PUTs.
C31_RetryRereadsToken ==
    /\ \A p \in LogIndexes("PUT") :
          /\ p > 1
          /\ c_log[p - 1].op = "GET"
          /\ c_log[p - 1].attempt = c_log[p].attempt
          /\ c_log[p].arg = c_log[p - 1].arg
    /\ \A p \in StalePuts : \A q \in LogIndexes("PUT") :
          q > p => /\ c_log[q].attempt > c_log[p].attempt
                   /\ c_log[q].arg # c_log[p].arg
    /\ Cardinality(LogIndexes("PUT")) <= max_retries

\* C31 witness: the PUT of the first attempt was rejected as stale, the second
\* attempt's GET failed so its PUT went without a token, and the third
\* attempt read the file's token again and sent it.
C31_Witness ==
    /\ c_pc = "done"
    /\ Cardinality(LogIndexes("PUT")) = 3
    /\ \E p \in StalePuts : c_log[p].attempt = 0
    /\ \E q \in LogIndexes("PUT") :
          /\ c_log[q].attempt = 1 /\ c_log[q].arg = 0 /\ c_log[q - 1].status = "500"
    /\ \E q \in LogIndexes("PUT") :
          /\ c_log[q].attempt = 2 /\ c_log[q].arg # 0 /\ c_log[q - 1].status = "200"

-----------------------------------------------------------------------------
(* SpecRuns: consecutive runs of main() over an unchanged link store *)

\* number of runs followed
MaxRuns == 2

\* The progress request of load_progress was answered by the repository.
Answered(response) == response \in {"200", "404"}

\* The first run: the configuration is complete, the store holds valid links,
\* the repository and the disk hold any progress document.
InitRuns ==
    /\ pc = "main"
    /\ missing_vars = {}
    /\ session_type \in IdLabels
    /\ \E n \in 1..MaxLen : links_file = StoreOf(n)
    /\ remote_progress \in StoredDocuments
    /\ local_file \in StoredDocuments
    /\ links = <<>> /\ current_index = 0 /\ start_index = 0
    /\ stats_start_time = "None"
    /\ loop_running = TRUE
    /\ gh_attempt = 0 /\ gh_last = "none" /\ github_progress = None
    /\ telegram_links = <<>> /\ website_links = <<>>
    /\ exit_code = "running"
    /\ ObjFresh
    /\ CommitIdle
    /\ ConvIdle
    /\ SendIdle /\ ScrapeIdle /\ IdIdle /\ RaceIdle /\ DetectIdle
    /\ SessIdle
    /\ run = 1 /\ prev_end = None /\ dispatched = <<>> /\ reached = TRUE

\* The process of a run has ended and the scheduler starts the next one: a
\* new process with a new object (lines 66-85), over the same store and the
\* same remote repository.  data/progress.json is the file the ended run
\* left on the disk, or absent when the new run has a new working directory.
NextRun ==
    /\ pc = "exited"
    /\ run < MaxRuns
    /\ run' = run + 1
    /\ prev_end' = current_index
    /\ dispatched' = dispatched \o telegram_positions \o website_positions
    /\ reached' = (reached /\ Answered(gh_last))
    /\ pc' = "main"
    /\ exit_code' = "running"
    /\ session_type' \in IdLabels
    /\ local_file' \in {local_file, NoDocument}
    /\ links' = <<>> /\ current_index' = 0 /\ start_index' = 0
    /\ stats_start_time' = "None"
    /\ progress_data' = NoDocument /\ gh_task' = NoTask /\ save_outcome' = "none"
    /\ last_call' = NoCall /\ returned' = <<>> /\ counts' = <<>> /\ calls' = 0
    /\ gh_attempt' = 0 /\ gh_last' = "none" /\ github_progress' = None
    /\ telegram_links' = <<>> /\ website_links' = <<>>
    /\ telegram_positions' = <<>> /\ website_positions' = <<>>
    /\ session_ret' = None /\ update_result' = "none"
    /\ UNCHANGED <<loop_running, missing_vars, links_file, remote_progress>>
    /\ UNCHANGED <<serp_api_key, serp_request_count, serp_requests, last_lookup,
                   last_responses, web_i, send_log, sent_count, telegram_sent,
                   post_delays, website_products, remote_feed, feed_exists,
                   feed_reads, feed_commits>>
    /\ UNCHANGED <<convVars, commitVars, sendVars, scrapeVars, idVars, raceVars,
                   detectVars>>

NextRuns ==
    \/ Next
    \/ NextRun

SpecRuns == InitRuns /\ [][NextRuns]_vars

-----------------------------------------------------------------------------
(* Properties of consecutive runs, checked under SpecRuns *)

\* The run has loaded its progress.
ProgressLoaded ==
    pc \in {"check_links", "session_start", "take_telegram", "take_website",
            "posting", "returned", "exited"}

\* The store positions selected so far, over all runs, in their order.
AllDispatched == dispatched \o telegram_positions \o website_positions

\* C32 as stated: over an unchanged store, with the repository answering the
\* progress requests, a run starts at the index where the previous run ended
\* (an index at the end of the store standing for its first position),
\* so the round robin goes on across runs: each position selected is the one
\* that follows the position selected before it, none is skipped and none
\* comes back before the others had their turn.
C32_RunsContinueRoundRobin ==
    (ProgressLoaded /\ reached /\ Answered(gh_last)) =>
        /\ run > 1 => WrapIndex(start_index, Len(links_file))
                          = WrapIndex(prev_end, Len(links_file))
        /\ \A k \in 1..(Len(AllDispatched) - 1) :
              AllDispatched[k + 1] = (AllDispatched[k] + 1) % Len(links_file)

\* What the code does: no run writes the remote progress document
\* (save_progress fails at json.dump in every session, before it creates the
\* update task), so every run the repository answers starts from the index
\* that document held at the first run, or from 0 when it holds none and the
\* local file is absent or cut short.
RunsRestartFromStoredIndex ==
    /\ gh_task.state = "none"
    /\ (ProgressLoaded /\ Answered(gh_last)) =>
          IF gh_last = "200" THEN start_index = ProgressOf(remote_progress)
          ELSE run > 1 => start_index = 0

\* The second run selects again the positions the first run selected.
SecondRunRepeatsFirst ==
    /\ run = 2 /\ pc = "exited" /\ reached /\ Answered(gh_last)
    /\ Len(links_file) = 4 /\ prev_end = 3 /\ start_index = 0
    /\ dispatched = <<0, 1, 2>>
    /\ telegram_positions = <<0, 1>> /\ website_positions = <<2>>

-----------------------------------------------------------------------------
(* The range of the cursor, checked under Spec *)

\* C33: the cursor is never negative; once get_next_links has been called (the
\* program asks for one link or more) on a non-empty store of L links the
\* cursor is between 1 and L; and every progress record the program has
\* written holds an index between 0 and its total_links.
C33_CursorRange ==
    /\ current_index >= 0
    /\ (calls > 0 /\ links # <<>>) =>
          /\ last_call.count >= 1
          /\ 1 <= current_index /\ current_index <= Len(links)
    /\ \A d \in PersistedRecords :
          0 <= d.current_index /\ d.current_index <= d.total_links

\* C33 witness: the cursor was loaded as 5 over a store of three links, beyond
\* its end; after the two takes of a morning session (3 and 2 links) it is 2
\* and the record written by save_progress holds 2 of 3.
C33_Witness ==
    /\ pc = "posting" /\ session_type = "morning"
    /\ Len(links) = 3 /\ start_index = 5 /\ calls = 2
    /\ current_index = 2
    /\ local_file.state # "absent" /\ local_file.total_links = 3
    /\ local_file.current_index = 2

-----------------------------------------------------------------------------
(* The cursor during the posting phases, checked under SpecSession *)

\* The two takes of the session are behind.
AfterTakes ==
    pc \in {"posting", "telegram_phase", "website_phase", "update_phase", "summary",
            "returned"}

\* C34: the cursor is changed only by get_next_links: whatever the sends, the
\* lookups and the feed commit led to, from the end of the website take to the
\* return of the session the cursor is the index the two takes left, and
\* get_next_links has been called twice, so no item is selected again.
C34_CursorMovedOnlyByTakes ==
    AfterTakes =>
        IF links = <<>>
        THEN current_index = start_index /\ returned = <<>>
        ELSE LET cfg == SessionConfigOf(session_type)
                 t == TakeLoop(links, start_index, <<>>, 0, cfg.telegram_links)
                 w == TakeLoop(links, t.index, <<>>, 0, cfg.website_links)
             IN /\ current_index = w.index
                /\ calls = 2
                /\ returned = t.selected \o w.selected

\* The same as a condition on every step: a step that changes the cursor is
\* one of the two takes.
CursorWrittenOnlyByTakes ==
    [][current_index' # current_index => pc \in {"take_telegram", "take_website"}]_vars

\* C34 witness: a session returned after a chat send failed, a lookup fell
\* back and the feed commit failed.
C34_Witness ==
    /\ pc = "returned" /\ links # <<>>
    /\ \E k \in DOMAIN send_log : ~send_log[k]
    /\ website_products # <<>>
    /\ serp_api_key /\ serp_requests > 0
    /\ website_products[Len(website_products)].data_source = "fallback"
    /\ update_result = "False"
    /\ current_index # start_index

-----------------------------------------------------------------------------
(* The origin index of the website products, checked under SpecSession *)

\* C35 as stated: the link_index recorded in each website product is the
\* store position its link was read from by the website take, also when that
\* take wrapped around the end of the store.
C35_LinkIndexIsStorePosition ==
    \A k \in DOMAIN website_products :
        website_products[k].link_index = website_positions[website_products[k].i]

\* What the code does: link_index is the cursor after the takes less the
\* website quota plus i - 1, which is the position read only when the
\* website take did not wrap.
LinkIndexFromCursor ==
    \A k \in DOMAIN website_products :
        LET p == website_products[k]
            quota == SessionConfigOf(session_type).website_links
        IN /\ p.link_index = current_index - quota + p.i - 1
           /\ (\A j \in 1..(Len(website_positions) - 1) :
                  website_positions[j] < website_positions[j + 1])
              => p.link_index = website_positions[p.i]

\* The website take read the last and the first position of a store of four
\* links and the first product records -1.
NegativeLinkIndex ==
    /\ Len(links) = 4 /\ website_positions = <<3, 0>>
    /\ Len(website_products) = 2
    /\ website_products[1].link_index = 0 - 1
    /\ website_products[2].link_index = 0

-----------------------------------------------------------------------------
(* The resolution of short links, checked under SpecConvert *)

\* C36 as stated: convert_amazon_link ends with a value for every input, and
\* for a short link it sends a bounded number of resolution requests: when the
\* request fails or gives a URL that is still a short link without an
\* identifier, the call falls back to appending the tag instead of resolving
\* again, so no request is sent by a call below the outermost one.
C36_ShortLinkResolvedOnce ==
    /\ cv_pc \in {"call", "head", "done"}
    /\ cv_pc = "head" => cv_depth = 0
    /\ ~(cv_pc = "call" /\ cv_depth > 0 /\ ConvertStep(cv_url).head)

\* What the code does: a resolved URL that is still a short link is handed to
\* a new call (line 283), which sends the request again, and so on; only a
\* request that raises (in the end the RecursionError of the interpreter,
\* caught at line 284) ends the descent, with the tag appended to the URL of
\* the innermost call.
ShortLinkResolvedAgain ==
    /\ cv_round = 1 /\ cv_pc = "done"
    /\ IsShortLink(cv_input)
    /\ cv_depth = MaxRedirects /\ cv_heads = MaxRedirects
    /\ cv_out = AppendTag(<<ShortLinkHost, "/p">>)

-----------------------------------------------------------------------------
(* The pace of the chat loop, checked under SpecSession *)

\* C37: the chat items are sent one after the other, and after each send but
\* the last of the session the configured delay is awaited exactly once,
\* whether the send succeeded or failed: when k of the n items have been sent
\* there have been k waits, n - 1 once all are sent, each of the configured
\* length.
C37_OneDelayBetweenSends ==
    LET n == Len(telegram_links)
        k == Len(send_log)
    IN /\ k <= n
       /\ Len(post_delays) = (IF k < n THEN k ELSE IF n = 0 THEN 0 ELSE n - 1)
       /\ \A j \in DOMAIN post_delays :
             post_delays[j] = SessionConfigOf(session_type).delay_between_posts

\* C37 witness: an evening session sent its two chat items, the first send
\* failed, and it waited 90 seconds once.
C37_Witness ==
    /\ session_type = "evening" /\ pc = "website_phase"
    /\ Len(telegram_links) = 2
    /\ send_log = <<FALSE, TRUE>>
    /\ post_delays = <<90>>

-----------------------------------------------------------------------------
(* The count of new links, checked under SpecScraper *)

\* C38 as stated: the number save_links records and returns as
\* new_links_added is the number of links of the saved store that were not
\* stored before, the saved size less the previous size, also when a product
\* was found more than once in the run; and the run never holds more than
\* max_links new links.
C38_NewLinksAddedIsStoreGrowth ==
    /\ Len(new_links) <= MaxNewLinks
    /\ sc_pc = "done" =>
          /\ new_links_added = Cardinality(Elements(store_file) \ Elements(stored_before))
          /\ new_links_added = Len(store_file) - Len(stored_before)

\* What the code does: the number is the length of new_links, in which a link
\* found twice stands twice; it is the growth of the store only when no link
\* was found twice.
NewLinksAddedIsListLength ==
    /\ Len(new_links) <= MaxNewLinks
    /\ sc_pc = "done" =>
          /\ new_links_added = Len(new_links)
          /\ new_links_added >= Len(store_file) - Len(stored_before)
          /\ Cardinality(Elements(new_links)) = Len(new_links)
             => new_links_added = Len(store_file) - Len(stored_before)

\* The same link was found twice: the store grew by one and the run reports 2.
SameLinkCountedTwice ==
    /\ sc_pc = "done" /\ stored_before = <<1>>
    /\ new_links = <<2, 2>> /\ store_file = <<1, 2>>
    /\ new_links_added = 2

-----------------------------------------------------------------------------
(* SpecDetect: one call of detect_and_convert_links of src/bot.py *)

\* largest number of words (URLs or plain words) of a message
MaxItems == 2

\* The hosts amazon_pattern (line 58) matches, here one with www. and one
\* without, and the host of flipkart_pattern (line 59).
AmazonHosts == {MarketplaceHost, "https://amazon.com"}
FlipkartHost == "https://www.flipkart.com"

\* The words of the messages: Amazon URLs without an identifier, with one,
\* and with one followed by more of the path (the URL before it is then its
\* prefix), a Flipkart URL and a plain word.  A URL is a sequence of parts as
\* in SpecConvert; a blank separates two words.
MessageItems ==
    UNION {{<<h, "/p">>, <<h, "/dp/", AsinTable[1]>>,
            <<h, "/dp/", AsinTable[1], "/ref">>} : h \in AmazonHosts}
    \cup {<<FlipkartHost, "/f">>, <<"deal">>}

RECURSIVE JoinWords(_)
JoinWords(words) ==
    IF words = <<>> THEN <<>>
    ELSE IF Len(words) = 1 THEN words[1]
    ELSE words[1] \o <<" ">> \o JoinWords(Tail(words))

Messages == {JoinWords(f) : f \in UNION {[1..n -> MessageItems] : n \in 1..MaxItems}}

\* The maximal runs of parts of text that hold no blank.
RECURSIVE Words(_)
Words(text) ==
    IF text = <<>> THEN <<>>
    ELSE LET blanks == {k \in DOMAIN text : text[k] = " "}
             stop == IF blanks = {} THEN Len(text) + 1
                     ELSE CHOOSE k \in blanks : \A j \in blanks : k <= j
             word == SubSeq(text, 1, stop - 1)
         IN (IF word = <<>> THEN <<>> ELSE <<word>>)
            \o Words(SubSeq(text, stop + 1, Len(text)))

\* lines 65, 72: re.findall(pattern, text), the matches in their order, one
\* for each occurrence.
FindAll(text, hosts) == SelectSeq(Words(text), LAMBDA w : w[1] \in hosts)

\* str.replace(old, new): every occurrence of old, from the left, without
\* overlap.
RECURSIVE Replace(_, _, _)
Replace(text, old, new) ==
    IF Len(text) < Len(old) THEN text
    ELSE IF SubSeq(text, 1, Len(old)) = old
    THEN new \o Replace(SubSeq(text, Len(old) + 1, Len(text)), old, new)
    ELSE <<Head(text)>> \o Replace(Tail(text), old, new)

\* src/bot.py lines 25-44: convert_amazon_link of the interactive bot, the
\* link built from the first identifier pattern that matches, else the tag
\* appended; the link has the shape of CanonicalLink.
bot_convert_amazon_link(url) ==
    IF SearchAsin(url, {"/dp/"}) # NoAsin
    THEN CanonicalLink(SearchAsin(url, {"/dp/"}))
    ELSE IF SearchAsin(url, {"/gp/product/"}) # NoAsin
    THEN CanonicalLink(SearchAsin(url, {"/gp/product/"}))
    ELSE IF SearchAsin(url, {"/product/", "/gp/product/"}) # NoAsin
    THEN CanonicalLink(SearchAsin(url, {"/product/", "/gp/product/"}))
    ELSE AppendTag(url)

\* src/bot.py lines 46-54: url.split('?') is a list, urllib.parse.quote
\* raises TypeError on it, and the handler returns url as it came.
convert_flipkart_to_earnkaro(url) == url

InitDetect ==
    /\ dt_pc = "find"
    /\ dt_text \in Messages
    /\ dt_converted = dt_text
    /\ dt_urls = <<>> /\ dt_i = 0 /\ dt_conversions = <<>>
    /\ links = <<>> /\ current_index = 0 /\ start_index = 0
    /\ stats_start_time = "None" /\ loop_running = TRUE
    /\ local_file = NoDocument
    /\ ObjFresh
    /\ MainIdle
    /\ CommitIdle
    /\ SessIdle
    /\ ConvIdle
    /\ SendIdle /\ ScrapeIdle /\ IdIdle /\ RaceIdle /\ RunIdle

detectFrame ==
    UNCHANGED <<objVars, mainVars, commitVars, takeHist, sessVars, convVars,
                sendVars, scrapeVars, idVars, raceVars, runVars>>

\* line 65: amazon_urls = re.findall(amazon_pattern, text)
DetectFindAmazon ==
    /\ dt_pc = "find"
    /\ dt_urls' = FindAll(dt_text, AmazonHosts)
    /\ dt_i' = 0
    /\ dt_pc' = "amazon"
    /\ UNCHANGED <<dt_text, dt_converted, dt_conversions>>
    /\ detectFrame

\* lines 66-69: one iteration of the loop over amazon_urls.
DetectAmazon ==
    /\ dt_pc = "amazon"
    /\ dt_i < Len(dt_urls)
    /\ LET url == dt_urls[dt_i + 1]
           converted_url == bot_convert_amazon_link(url)
       IN dt_converted' = Replace(dt_converted, url, converted_url)
    /\ dt_conversions' = Append(dt_conversions, "amazon")
    /\ dt_i' = dt_i + 1
    /\ UNCHANGED <<dt_pc, dt_text, dt_urls>>
    /\ detectFrame

\* line 72: flipkart_urls = re.findall(flipkart_pattern, text), once the loop
\* over amazon_urls has ended.
DetectFindFlipkart ==
    /\ dt_pc = "amazon"
    /\ dt_i = Len(dt_urls)
    /\ dt_urls' = FindAll(dt_text, {FlipkartHost})
    /\ dt_i' = 0
    /\ dt_pc' = "flipkart"
    /\ UNCHANGED <<dt_text, dt_converted, dt_conversions>>
    /\ detectFrame

\* lines 73-76: one iteration of the loop over flipkart_urls.
DetectFlipkart ==
    /\ dt_pc = "flipkart"
    /\ dt_i < Len(dt_urls)
    /\ LET url == dt_urls[dt_i + 1]
           converted_url == convert_flipkart_to_earnkaro(url)
       IN dt_converted' = Replace(dt_converted, url, converted_url)
    /\ dt_conversions' = Append(dt_conversions, "flipkart")
    /\ dt_i' = dt_i + 1
    /\ UNCHANGED <<dt_pc, dt_text, dt_urls>>
    /\ detectFrame

\* line 78: return converted_text, conversions
DetectReturn ==
    /\ dt_pc = "flipkart"
    /\ dt_i = Len(dt_urls)
    /\ dt_pc' = "done"
    /\ UNCHANGED <<dt_text, dt_urls, dt_i, dt_converted, dt_conversions>>
    /\ detectFrame

NextDetect ==
    \/ DetectFindAmazon
    \/ DetectAmazon
    \/ DetectFindFlipkart
    \/ DetectFlipkart
    \/ DetectReturn

SpecDetect == InitDetect /\ [][NextDetect]_vars

-----------------------------------------------------------------------------
(* Properties of detect_and_convert_links, checked under SpecDetect *)

\* The message with each Amazon URL in the place of which stands what
\* convert_amazon_link makes of it.
EachAmazonUrlConverted(text) ==
    LET words == Words(text)
    IN JoinWords([k \in DOMAIN words |->
                    IF words[k][1] \in AmazonHosts
                    THEN bot_convert_amazon_link(words[k]) ELSE words[k]])

\* C39 as stated: detect_and_convert_links converts every Amazon URL
\* occurrence of the message exactly once: the text returned is the message
\* with each occurrence replaced by its converted form, which carries the tag
\* exactly once, also when a URL occurs twice or is a prefix of another, and
\* conversions has one entry for each occurrence.
C39_EveryOccurrenceConvertedOnce ==
    dt_pc = "done" =>
        /\ dt_converted = EachAmazonUrlConverted(dt_text)
        /\ \A k \in DOMAIN Words(dt_converted) :
              Words(dt_converted)[k][1] \in AmazonHosts
                 => TagCount(Words(dt_converted)[k]) = 1
        /\ Len(SelectSeq(dt_conversions, LAMBDA c : c = "amazon"))
              = Len(FindAll(dt_text, AmazonHosts))

\* What the code keeps of it: one entry of conversions for each occurrence,
\* and the text as claimed when no Amazon URL of the message is a part of
\* another one, of itself at another place, or of a converted form.
ConvertedWhenUrlsApart ==
    dt_pc = "done" =>
        /\ Len(dt_conversions) = Len(FindAll(dt_text, AmazonHosts))
                                 + Len(FindAll(dt_text, {FlipkartHost}))
        /\ Len(FindAll(dt_text, AmazonHosts)) <= 1
              => dt_converted = EachAmazonUrlConverted(dt_text)

\* The same URL without an identifier stood twice in the message: each of the
\* two places got the tag twice.
TagAppendedTwice ==
    /\ dt_pc = "done"
    /\ dt_text = <<MarketplaceHost, "/p", " ", MarketplaceHost, "/p">>
    /\ LET twice == <<MarketplaceHost, "/p", "?", "tag=", AMAZON_AFFILIATE_TAG,
                       "?", "tag=", AMAZON_AFFILIATE_TAG>>
       IN dt_converted = twice \o <<" ">> \o twice
    /\ dt_conversions = <<"amazon", "amazon">>

====
